---------------------------- MODULE Spec2Model ----------------------------
(***************************************************************************)
(* Model of the DLNA MediaRenderer control module (modules/control/        *)
(* dlna.cpp): the action table, the parameter codec, the action handlers,  *)
(* the LastChange event encoder and the action dispatcher.                 *)
(*                                                                         *)
(* Strings that the code parses or escapes are sequences of one-character  *)
(* strings; identifiers that are only compared (service ids, action and    *)
(* parameter names) are TLA+ strings.                                      *)
(***************************************************************************)
EXTENDS Integers, Sequences, FiniteSets, TLC

(***************************************************************************)
(* Bounds of the model.                                                    *)
(***************************************************************************)
MaxElems == 2
MaxChildren == 3
MaxPairs == 1

(***************************************************************************)
(* Program constants.                                                      *)
(***************************************************************************)
UPNP_E_SUCCESS == 0
UPNP_E_INTERNAL_ERROR == -911
SRV_AVT == "urn:upnp-org:serviceId:AVTransport"
SRV_RC == "urn:upnp-org:serviceId:RenderingControl"
SRV_CM == "urn:upnp-org:serviceId:ConnectionManager"

(***************************************************************************)
(* C integer arithmetic: division and remainder truncate towards zero.     *)
(***************************************************************************)
Abs(x) == IF x < 0 THEN -x ELSE x

CDiv(a, b) ==
    IF (a >= 0) = (b > 0) THEN Abs(a) \div Abs(b) ELSE -(Abs(a) \div Abs(b))

CRem(a, b) == a - b * CDiv(a, b)

VLC_CLIP(v, lo, hi) == IF v < lo THEN lo ELSE IF v > hi THEN hi ELSE v

(***************************************************************************)
(* Character classes and decimal conversion.                               *)
(***************************************************************************)
Digits == <<"0", "1", "2", "3", "4", "5", "6", "7", "8", "9">>

IsDigit(c) == \E i \in 1..10 : Digits[i] = c

DigitVal(c) == (CHOOSE i \in 1..10 : Digits[i] = c) - 1

IsSpace(c) == c \in {" ", "\t", "\n"}

RECURSIVE to_string_nat(_)
to_string_nat(n) ==
    IF n < 10 THEN <<Digits[n + 1]>>
    ELSE to_string_nat(n \div 10) \o <<Digits[(n % 10) + 1]>>

to_string(n) == IF n < 0 THEN <<"-">> \o to_string_nat(-n) ELSE to_string_nat(n)

(* "%02u" of snprintf: at least two digits, zero padded. *)
Pad2(n) == IF n < 10 THEN <<"0">> \o to_string_nat(n) ELSE to_string_nat(n)

(***************************************************************************)
(* Numeric scanning as strtoul / sscanf("%u") / sscanf("%d") do it: skip   *)
(* white space, accept one optional sign, then read at least one digit.    *)
(* The result is [ok, neg, mag, next]: next is the index after the number. *)
(***************************************************************************)
RECURSIVE SkipSpace(_, _)
SkipSpace(s, i) ==
    IF i <= Len(s) /\ IsSpace(s[i]) THEN SkipSpace(s, i + 1) ELSE i

RECURSIVE ScanDigits(_, _, _)
ScanDigits(s, i, acc) ==
    IF i <= Len(s) /\ IsDigit(s[i])
    THEN ScanDigits(s, i + 1, acc * 10 + DigitVal(s[i]))
    ELSE [mag |-> acc, next |-> i]

ScanNumber(s, from) ==
    LET i == SkipSpace(s, from)
        signed == i <= Len(s) /\ s[i] \in {"+", "-"}
        j == IF signed THEN i + 1 ELSE i
        r == ScanDigits(s, j, 0)
    IN  [ok |-> r.next > j,
         neg |-> signed /\ s[i] = "-" /\ r.mag # 0,
         mag |-> r.mag,
         next |-> r.next]

(* A literal character of a scanf format. *)
MatchChar(s, i, c) == i <= Len(s) /\ s[i] = c

(***************************************************************************)
(* String literals of the handlers, as character sequences.                *)
(***************************************************************************)
S_STOPPED == <<"S", "T", "O", "P", "P", "E", "D">>

S_PLAYING == <<"P", "L", "A", "Y", "I", "N", "G">>

S_PAUSED_PLAYBACK == <<"P", "A", "U", "S", "E", "D", "_", "P", "L", "A", "Y", "B", "A", "C", "K">>

S_TRANSITIONING == <<"T", "R", "A", "N", "S", "I", "T", "I", "O", "N", "I", "N", "G">>

S_UNKNOWN == <<"U", "N", "K", "N", "O", "W", "N">>

S_OK == <<"O", "K">>

S_ERROR_OCCURRED == <<"E", "R", "R", "O", "R", "_", "O", "C", "C", "U", "R", "R", "E", "D">>

S_ABS_TIME == <<"A", "B", "S", "_", "T", "I", "M", "E">>

S_REL_TIME == <<"R", "E", "L", "_", "T", "I", "M", "E">>

S_true == <<"t", "r", "u", "e">>

S_yes == <<"y", "e", "s">>

S_false == <<"f", "a", "l", "s", "e">>

S_no == <<"n", "o">>

S_0 == <<"0">>

S_1 == <<"1">>

S_empty == <<>>

(* SINK_PROTOCOL_INFO: one element per list entry; never parsed. *)
SINK_PROTOCOL_INFO ==
    <<"http-get:*:video/mpeg:*,", "http-get:*:video/mp4:*,",
      "http-get:*:video/vnd.dlna.mpeg-tts:*,", "http-get:*:video/avi:*,",
      "http-get:*:video/x-matroska:*,", "http-get:*:video/x-ms-wmv:*,",
      "http-get:*:video/wtv:*,", "http-get:*:audio/mpeg:*,",
      "http-get:*:audio/mp3:*,", "http-get:*:audio/mp4:*,",
      "http-get:*:audio/x-ms-wma*,", "http-get:*:audio/wav:*,",
      "http-get:*:audio/L16:*,", "http-get:*image/jpeg:*,",
      "http-get:*image/png:*,", "http-get:*image/gif:*,",
      "http-get:*image/tiff:*">>

(***************************************************************************)
(* Ticks.  vlc_tick_t counts microseconds in 64 bits; the model keeps a    *)
(* tick as whole seconds plus the microseconds below one second.           *)
(***************************************************************************)
VLC_TICK_FROM_SEC(sec) == [sec |-> sec, usec |-> 0]

SEC_FROM_VLC_TICK(t) == t.sec

Pad6(n) ==
    LET d == to_string_nat(n)
    IN  [i \in 1..(6 - Len(d)) |-> "0"] \o d

(* std::to_string of a tick: the microsecond count in decimal. *)
tick_to_string(t) ==
    IF t.sec = 0 THEN to_string_nat(t.usec)
    ELSE to_string_nat(t.sec) \o Pad6(t.usec)

(* time_to_string with the minutes not reduced modulo 60. *)
time_to_string_minutes_unwrapped(ticks) ==
    LET t0 == SEC_FROM_VLC_TICK(ticks)
        s == CRem(t0, 60)
        t1 == t0 - s
        m == CDiv(t1, 60)
        t2 == t1 - 60 * m
        h == CDiv(t2, 60 * 60)
    IN  to_string_nat(h) \o <<":">> \o Pad2(m) \o <<":">> \o Pad2(s)

(* time_to_string with the hours of a clock, as strftime writes them. *)
time_to_string_hours_wrapped(ticks) ==
    LET t0 == SEC_FROM_VLC_TICK(ticks)
        s == CRem(t0, 60)
        t1 == t0 - s
        m == CRem(CDiv(t1, 60), 60)
        t2 == t1 - 60 * m
        h == CRem(CDiv(t2, 60 * 60), 24)
    IN  to_string_nat(h) \o <<":">> \o Pad2(m) \o <<":">> \o Pad2(s)

time_to_string(ticks) ==
    LET t0 == SEC_FROM_VLC_TICK(ticks)
        s == CRem(t0, 60)
        t1 == t0 - s
        m == CRem(CDiv(t1, 60), 60)
        t2 == t1 - 60 * m
        h == CDiv(t2, 60 * 60)
    IN  to_string_nat(h) \o <<":">> \o Pad2(m) \o <<":">> \o Pad2(s)

(***************************************************************************)
(* Rates.  A float rate is kept as the exact fraction [n, d, e] standing   *)
(* for n / (d * 2^e), n/d in lowest terms with d > 0, so that the          *)
(* comparisons of the code are decidable.  e is 0 except for the quotient  *)
(* by a wrapped unsigned denominator (see frac_to_float).                  *)
(***************************************************************************)
RECURSIVE Gcd(_, _)
Gcd(a, b) == IF b = 0 THEN a ELSE Gcd(b, a % b)

Rat(n, d) ==
    LET g == Gcd(Abs(n), d)
    IN  [n |-> n \div g, d |-> d \div g, e |-> 0]

(* Bits of unsigned int. *)
UINT_BITS == 32

(* (float) n / (float) d for d = 2^32 - mag, the value "%u" stores for    *)
(* "-mag": (float) d rounds to 2^32 for every mag up to 128.               *)
RatWrapped(n) == [n |-> n, d |-> 1, e |-> UINT_BITS]

RateOne == Rat(1, 1)

(* sscanf(frac, "%d/%u", &n, &d) == 2 || sscanf(frac, "%d", &n) == 1:      *)
(* both calls read a prefix and ignore what follows it; when the first     *)
(* stops after "n" or "n/" the second stores the same n and d keeps 1.     *)
(* "%u" accepts a sign and stores the negated value modulo 2^32.           *)
frac_to_float(frac) ==
    LET a == ScanNumber(frac, 1)
        n == IF a.neg THEN -a.mag ELSE a.mag
        slash == a.ok /\ MatchChar(frac, a.next, "/")
        b == ScanNumber(frac, a.next + 1)
        two == slash /\ b.ok
        d == IF two THEN b.mag ELSE 1
    IN  IF ~a.ok THEN RateOne
        ELSE IF n = 0 \/ d = 0 THEN RateOne
        ELSE IF two /\ b.neg THEN RatWrapped(n)
        ELSE Rat(n, d)

RECURSIVE gcd(_, _)
gcd(n, d) == IF d = 0 THEN n ELSE gcd(d, CRem(n, d))

(* std::lround( frac * 100 ): to nearest, halfway cases away from zero. *)
(* A quotient by a wrapped denominator is below 2^-25 times k: it rounds   *)
(* to 0.                                                                   *)
lround_times(frac, k) ==
    LET num == Abs(frac.n) * k
        q == (2 * num + frac.d) \div (2 * frac.d)
    IN  IF frac.e > 0 THEN 0 ELSE IF frac.n < 0 THEN -q ELSE q

float_to_frac(frac) ==
    LET n == lround_times(frac, 100)
        d == 100
        common_denominator == gcd(n, d)
    IN  to_string(CDiv(n, common_denominator)) \o <<"/">> \o
        to_string(CDiv(d, common_denominator))

(***************************************************************************)
(* The player (vlc_player_t), seen through the calls the handlers make.    *)
(* A handler works on [pl, calls]: pl is the player, calls the sequence of *)
(* player functions called so far while serving the current request.       *)
(*   media  the current media (NoMedia or a URI)                           *)
(*   state  enum vlc_player_state, error  enum vlc_player_error            *)
(*   rate   the playback rate, length/time  ticks                          *)
(*   volume the audio volume in thousandths, mute  the mute flag           *)
(***************************************************************************)
NoMedia == <<>>

PlayerStates == {"STOPPED", "STARTED", "PLAYING", "PAUSED", "STOPPING"}

PlayerErrors == {"NONE", "GENERIC"}

Called(p, api) == [p EXCEPT !.calls = Append(@, api)]

vlc_player_Lock(p) == Called(p, "vlc_player_Lock")

vlc_player_Unlock(p) == Called(p, "vlc_player_Unlock")

vlc_player_IsStarted(p) == p.pl.state \in {"STARTED", "PLAYING", "PAUSED"}

vlc_player_SetCurrentMedia(p, item) ==
    Called([p EXCEPT !.pl.media = item], "vlc_player_SetCurrentMedia")

vlc_player_Start(p) ==
    Called(IF ~vlc_player_IsStarted(p) /\ p.pl.media # NoMedia
           THEN [p EXCEPT !.pl.state = "STARTED"] ELSE p,
           "vlc_player_Start")

vlc_player_Stop(p) ==
    Called(IF vlc_player_IsStarted(p)
           THEN [p EXCEPT !.pl.state = "STOPPING"] ELSE p,
           "vlc_player_Stop")

vlc_player_Pause(p) ==
    Called(IF vlc_player_IsStarted(p)
           THEN [p EXCEPT !.pl.state = "PAUSED"] ELSE p,
           "vlc_player_Pause")

vlc_player_Resume(p) ==
    Called(IF vlc_player_IsStarted(p)
           THEN [p EXCEPT !.pl.state = "PLAYING"] ELSE p,
           "vlc_player_Resume")

vlc_player_ChangeRate(p, rate) ==
    Called([p EXCEPT !.pl.rate = rate], "vlc_player_ChangeRate")

vlc_player_SeekByTime(p, t) ==
    Called(IF vlc_player_IsStarted(p) THEN [p EXCEPT !.pl.time = t] ELSE p,
           "vlc_player_SeekByTime")

vlc_player_aout_SetVolume(p, thousandths) ==
    Called([p EXCEPT !.pl.volume = thousandths], "vlc_player_aout_SetVolume")

vlc_player_aout_Mute(p, mute) ==
    Called([p EXCEPT !.pl.mute = mute], "vlc_player_aout_Mute")

(***************************************************************************)
(* Handler results.  A handler yields the set of results it can produce    *)
(* (more than one where a library call may fail): ok is its return value,  *)
(* thrown the exception that left it (NoException when it returned), out   *)
(* its output parameters as <<name, value>> in insertion order.            *)
(***************************************************************************)
NoException == "none"

Has(params, key) == key \in DOMAIN params

Returns(ok, out, p) ==
    [ok |-> ok, thrown |-> NoException, out |-> out, p |-> p]

Throws(exc, p) == [ok |-> FALSE, thrown |-> exc, out |-> <<>>, p |-> p]

(* handle_AVT_SetAVTransportURI starting the player in every case. *)
handle_AVT_SetAVTransportURI_always_starts(in_params, p) ==
    IF ~Has(in_params, "CurrentURI") THEN {Returns(FALSE, <<>>, p)}
    ELSE
        {Returns(FALSE, <<>>, p)} \cup
        {LET p1 == vlc_player_Lock(p)
             p2 == vlc_player_SetCurrentMedia(p1, in_params["CurrentURI"])
             p3 == vlc_player_Start(p2)
         IN  Returns(TRUE, <<>>, vlc_player_Unlock(p3))}

handle_AVT_SetAVTransportURI(in_params, p) ==
    IF ~Has(in_params, "CurrentURI") THEN {Returns(FALSE, <<>>, p)}
    ELSE
        (* input_item_New returns NULL when it cannot allocate the item *)
        {Returns(FALSE, <<>>, p)} \cup
        {LET p1 == vlc_player_Lock(p)
             start == vlc_player_IsStarted(p1)
             p2 == vlc_player_SetCurrentMedia(p1, in_params["CurrentURI"])
             p3 == IF start THEN vlc_player_Start(p2) ELSE p2
         IN  Returns(TRUE, <<>>, vlc_player_Unlock(p3))}

handle_AVT_GetMediaInfo(in_params, p) ==
    LET p1 == Called(vlc_player_Lock(p), "vlc_player_GetLength")
        length == p.pl.length
    IN  {Returns(TRUE, << <<"MediaDuration", time_to_string(length)>> >>,
                 vlc_player_Unlock(p1))}

(* TransportStateName without the fall through of STARTED. *)
TransportStateName_started_unknown(state) ==
    CASE state = "STOPPED" -> S_STOPPED
      [] state = "PLAYING" -> S_PLAYING
      [] state = "PAUSED" -> S_PAUSED_PLAYBACK
      [] state = "STOPPING" -> S_TRANSITIONING
      [] OTHER -> S_UNKNOWN

TransportStateName(state) ==
    CASE state = "STOPPED" -> S_STOPPED
      [] state = "PLAYING" -> S_PLAYING
      [] state = "PAUSED" -> S_PAUSED_PLAYBACK
      [] state \in {"STARTED", "STOPPING"} -> S_TRANSITIONING
      [] OTHER -> S_UNKNOWN

handle_AVT_GetTransportInfo(in_params, p) ==
    LET p1 == Called(Called(Called(vlc_player_Lock(p), "vlc_player_GetState"),
                            "vlc_player_GetError"), "vlc_player_GetRate")
        state == p.pl.state
        error == p.pl.error
        rate == p.pl.rate
    IN  {Returns(TRUE,
                 << <<"CurrentTransportState", TransportStateName(state)>>,
                    <<"CurrentTransportStatus",
                      IF error = "NONE" THEN S_OK ELSE S_ERROR_OCCURRED>>,
                    <<"CurrentSpeed", float_to_frac(rate)>> >>,
                 vlc_player_Unlock(p1))}

(* handle_AVT_GetPositionInfo reading the length and the time under two
   separate holds of the player lock. *)
handle_AVT_GetPositionInfo_two_holds(in_params, p) ==
    LET p1 == vlc_player_Unlock(Called(vlc_player_Lock(p),
                                       "vlc_player_GetLength"))
        p2 == Called(vlc_player_Lock(p1), "vlc_player_GetTime")
        length == p.pl.length
        time == p.pl.time
    IN  {Returns(TRUE,
                 << <<"Track", S_0>>,
                    <<"TrackDuration", time_to_string(length)>>,
                    <<"TrackMetaData", S_empty>>,
                    <<"TrackURI", S_empty>>,
                    <<"RelTime", time_to_string(time)>>,
                    <<"AbsTime", time_to_string(time)>>,
                    <<"RelCount", tick_to_string(time)>>,
                    <<"AbsCount", tick_to_string(time)>> >>,
                 vlc_player_Unlock(p2))}

handle_AVT_GetPositionInfo(in_params, p) ==
    LET p1 == Called(Called(vlc_player_Lock(p), "vlc_player_GetLength"),
                     "vlc_player_GetTime")
        length == p.pl.length
        time == p.pl.time
    IN  {Returns(TRUE,
                 << <<"Track", S_0>>,
                    <<"TrackDuration", time_to_string(length)>>,
                    <<"TrackMetaData", S_empty>>,
                    <<"TrackURI", S_empty>>,
                    <<"RelTime", time_to_string(time)>>,
                    <<"AbsTime", time_to_string(time)>>,
                    <<"RelCount", tick_to_string(time)>>,
                    <<"AbsCount", tick_to_string(time)>> >>,
                 vlc_player_Unlock(p1))}

(* handle_AVT_Stop returning without vlc_player_Unlock. *)
handle_AVT_Stop_keeps_lock(in_params, p) ==
    {Returns(TRUE, <<>>, vlc_player_Stop(vlc_player_Lock(p)))}

handle_AVT_Stop(in_params, p) ==
    {Returns(TRUE, <<>>, vlc_player_Unlock(vlc_player_Stop(vlc_player_Lock(p))))}

(* handle_AVT_Play leaving the rate of the player as it is. *)
handle_AVT_Play_keeps_rate(in_params, p) ==
    IF ~Has(in_params, "Speed") THEN {Returns(FALSE, <<>>, p)}
    ELSE
        LET p1 == Called(vlc_player_Lock(p), "vlc_player_GetRate")
            p3 == IF vlc_player_IsStarted(p1)
                  THEN vlc_player_Resume(p1) ELSE vlc_player_Start(p1)
        IN  {Returns(TRUE, <<>>, vlc_player_Unlock(p3))}

handle_AVT_Play(in_params, p) ==
    IF ~Has(in_params, "Speed") THEN {Returns(FALSE, <<>>, p)}
    ELSE
        LET new_rate == frac_to_float(in_params["Speed"])
            p1 == Called(vlc_player_Lock(p), "vlc_player_GetRate")
            p2 == IF p1.pl.rate # new_rate
                  THEN vlc_player_ChangeRate(p1, new_rate) ELSE p1
            p3 == IF vlc_player_IsStarted(p2)
                  THEN vlc_player_Resume(p2) ELSE vlc_player_Start(p2)
        IN  {Returns(TRUE, <<>>, vlc_player_Unlock(p3))}

handle_AVT_Pause(in_params, p) ==
    {Returns(TRUE, <<>>, vlc_player_Unlock(vlc_player_Pause(vlc_player_Lock(p))))}

(* sscanf(target, "%u:%u:%u", &h, &m, &s) == 3 ||
   sscanf(target, "%u:%u", &m, &s) == 2: what is left in h, m and s.  A
   conversion that matched has stored its value even when a later one did
   not match, so h keeps what the first call stored. *)
ScanTarget(target) ==
    LET a == ScanNumber(target, 1)
        colon1 == a.ok /\ MatchChar(target, a.next, ":")
        b == ScanNumber(target, a.next + 1)
        two == colon1 /\ b.ok
        colon2 == two /\ MatchChar(target, b.next, ":")
        c == ScanNumber(target, b.next + 1)
        three == colon2 /\ c.ok
    IN  [ok |-> three \/ two,
         h |-> IF a.ok THEN a ELSE [a EXCEPT !.mag = 0, !.neg = FALSE],
         m |-> IF three THEN b ELSE a,
         s |-> IF three THEN c ELSE b]

(* An unsigned int compared with 60: a negated non-zero value wraps to
   2^32 - mag, which is above 60 for every magnitude the model reads. *)
AtLeast60(x) == x.neg \/ x.mag >= 60

(* handle_AVT_Seek testing the range of minutes and seconds after the
   seek instead of before it. *)
handle_AVT_Seek_checks_late(in_params, p) ==
    IF ~Has(in_params, "Unit") THEN {Returns(FALSE, <<>>, p)}
    ELSE IF ~Has(in_params, "Target") THEN {Returns(FALSE, <<>>, p)}
    ELSE IF in_params["Unit"] = S_ABS_TIME \/ in_params["Unit"] = S_REL_TIME
    THEN
        LET t == ScanTarget(in_params["Target"])
            h == IF t.h.neg THEN -t.h.mag ELSE t.h.mag
            sec == h * 60 * 60 + t.m.mag * 60 + t.s.mag
            sought == vlc_player_Unlock(
                        vlc_player_SeekByTime(vlc_player_Lock(p),
                                              VLC_TICK_FROM_SEC(sec)))
        IN  IF ~t.ok THEN {Returns(FALSE, <<>>, p)}
            ELSE {Returns(~(AtLeast60(t.m) \/ AtLeast60(t.s)), <<>>, sought)}
    ELSE {Returns(FALSE, <<>>, p)}

handle_AVT_Seek(in_params, p) ==
    IF ~Has(in_params, "Unit") THEN {Returns(FALSE, <<>>, p)}
    ELSE IF ~Has(in_params, "Target") THEN {Returns(FALSE, <<>>, p)}
    ELSE IF in_params["Unit"] = S_ABS_TIME \/ in_params["Unit"] = S_REL_TIME
    THEN
        LET t == ScanTarget(in_params["Target"])
            h == IF t.h.neg THEN -t.h.mag ELSE t.h.mag
            sec == h * 60 * 60 + t.m.mag * 60 + t.s.mag
        IN  IF ~t.ok THEN {Returns(FALSE, <<>>, p)}
            ELSE IF AtLeast60(t.m) \/ AtLeast60(t.s)
            THEN {Returns(FALSE, <<>>, p)}
            ELSE {Returns(TRUE, <<>>,
                     vlc_player_Unlock(
                       vlc_player_SeekByTime(vlc_player_Lock(p),
                                             VLC_TICK_FROM_SEC(sec))))}
    ELSE {Returns(FALSE, <<>>, p)}

handle_CM_GetProtocolInfo(in_params, p) ==
    {Returns(TRUE, << <<"Source", S_empty>>, <<"Sink", SINK_PROTOCOL_INFO>> >>,
             p)}

(* std::lround( volume * 100 ) of a volume kept in thousandths. *)
lround_volume(thousandths) == (thousandths + 5) \div 10

handle_RC_GetVolume(in_params, p) ==
    LET p1 == Called(p, "vlc_player_aout_GetVolume")
        volume == VLC_CLIP(p.pl.volume, 0, 1000)
    IN  {Returns(TRUE,
                 << <<"CurrentVolume", to_string(lround_volume(volume))>> >>,
                 p1)}

(* std::stoul: throws when no digit can be read; a negated value wraps to
   2^64 - mag. *)
stoul(str) ==
    LET a == ScanNumber(str, 1)
    IN  [thrown |-> IF a.ok THEN NoException ELSE "std::invalid_argument",
         neg |-> a.neg,
         mag |-> a.mag]

(* handle_RC_SetVolume scaling by 50 where GetVolume scales by 100. *)
handle_RC_SetVolume_divisor_50(in_params, p) ==
    IF ~Has(in_params, "DesiredVolume") THEN {Returns(FALSE, <<>>, p)}
    ELSE
        LET n == stoul(in_params["DesiredVolume"])
            v == IF n.neg THEN 100 ELSE VLC_CLIP(n.mag, 0, 100)
        IN  IF n.thrown # NoException THEN {Throws(n.thrown, p)}
            ELSE {Returns(TRUE, <<>>, vlc_player_aout_SetVolume(p, v * 20))}

handle_RC_SetVolume(in_params, p) ==
    IF ~Has(in_params, "DesiredVolume") THEN {Returns(FALSE, <<>>, p)}
    ELSE
        LET n == stoul(in_params["DesiredVolume"])
            (* VLC_CLIP of an unsigned long: a wrapped value is above 100 *)
            v == IF n.neg THEN 100 ELSE VLC_CLIP(n.mag, 0, 100)
        IN  IF n.thrown # NoException THEN {Throws(n.thrown, p)}
            ELSE {Returns(TRUE, <<>>, vlc_player_aout_SetVolume(p, v * 10))}

handle_RC_GetMute(in_params, p) ==
    LET p1 == Called(p, "vlc_player_aout_IsMuted")
        muted == p.pl.mute
    IN  {Returns(TRUE, << <<"CurrentMute", IF muted THEN S_1 ELSE S_0>> >>, p1)}

(* handle_RC_SetMute taking every unrecognised value as "not muted". *)
handle_RC_SetMute_else_unmutes(in_params, p) ==
    IF ~Has(in_params, "DesiredMute") THEN {Returns(FALSE, <<>>, p)}
    ELSE
        LET m == in_params["DesiredMute"]
        IN  IF m = S_1 \/ m = S_true \/ m = S_yes
            THEN {Returns(TRUE, <<>>, vlc_player_aout_Mute(p, TRUE))}
            ELSE {Returns(TRUE, <<>>, vlc_player_aout_Mute(p, FALSE))}

handle_RC_SetMute(in_params, p) ==
    IF ~Has(in_params, "DesiredMute") THEN {Returns(FALSE, <<>>, p)}
    ELSE
        LET m == in_params["DesiredMute"]
        IN  IF m = S_1 \/ m = S_true \/ m = S_yes
            THEN {Returns(TRUE, <<>>, vlc_player_aout_Mute(p, TRUE))}
            ELSE IF m = S_0 \/ m = S_false \/ m = S_no
            THEN {Returns(TRUE, <<>>, vlc_player_aout_Mute(p, FALSE))}
            ELSE {Returns(TRUE, <<>>, p)}

(* The action table with the Play entry entered twice. *)
actions_duplicate_play ==
    << [service |-> SRV_AVT, action |-> "SetAVTransportURI",
        handler |-> "handle_AVT_SetAVTransportURI"],
       [service |-> SRV_AVT, action |-> "GetMediaInfo",
        handler |-> "handle_AVT_GetMediaInfo"],
       [service |-> SRV_AVT, action |-> "GetTransportInfo",
        handler |-> "handle_AVT_GetTransportInfo"],
       [service |-> SRV_AVT, action |-> "GetPositionInfo",
        handler |-> "handle_AVT_GetPositionInfo"],
       [service |-> SRV_AVT, action |-> "Stop", handler |-> "handle_AVT_Stop"],
       [service |-> SRV_AVT, action |-> "Play", handler |-> "handle_AVT_Play"],
       [service |-> SRV_AVT, action |-> "Play", handler |-> "handle_AVT_Play"],
       [service |-> SRV_AVT, action |-> "Pause",
        handler |-> "handle_AVT_Pause"],
       [service |-> SRV_AVT, action |-> "Seek", handler |-> "handle_AVT_Seek"],
       [service |-> SRV_CM, action |-> "GetProtocolInfo",
        handler |-> "handle_CM_GetProtocolInfo"],
       [service |-> SRV_RC, action |-> "GetVolume",
        handler |-> "handle_RC_GetVolume"],
       [service |-> SRV_RC, action |-> "SetVolume",
        handler |-> "handle_RC_SetVolume"],
       [service |-> SRV_RC, action |-> "GetMute",
        handler |-> "handle_RC_GetMute"],
       [service |-> SRV_RC, action |-> "SetMute",
        handler |-> "handle_RC_SetMute"] >>

(***************************************************************************)
(* The action table, without its { NULL, NULL, NULL } terminator: the scan *)
(* of the dispatcher ends after the last entry.                            *)
(***************************************************************************)
actions ==
    << [service |-> SRV_AVT, action |-> "SetAVTransportURI",
        handler |-> "handle_AVT_SetAVTransportURI"],
       [service |-> SRV_AVT, action |-> "GetMediaInfo",
        handler |-> "handle_AVT_GetMediaInfo"],
       [service |-> SRV_AVT, action |-> "GetTransportInfo",
        handler |-> "handle_AVT_GetTransportInfo"],
       [service |-> SRV_AVT, action |-> "GetPositionInfo",
        handler |-> "handle_AVT_GetPositionInfo"],
       [service |-> SRV_AVT, action |-> "Stop", handler |-> "handle_AVT_Stop"],
       [service |-> SRV_AVT, action |-> "Play", handler |-> "handle_AVT_Play"],
       [service |-> SRV_AVT, action |-> "Pause",
        handler |-> "handle_AVT_Pause"],
       [service |-> SRV_AVT, action |-> "Seek", handler |-> "handle_AVT_Seek"],
       [service |-> SRV_CM, action |-> "GetProtocolInfo",
        handler |-> "handle_CM_GetProtocolInfo"],
       [service |-> SRV_RC, action |-> "GetVolume",
        handler |-> "handle_RC_GetVolume"],
       [service |-> SRV_RC, action |-> "SetVolume",
        handler |-> "handle_RC_SetVolume"],
       [service |-> SRV_RC, action |-> "GetMute",
        handler |-> "handle_RC_GetMute"],
       [service |-> SRV_RC, action |-> "SetMute",
        handler |-> "handle_RC_SetMute"] >>

(* actions[i].handler( in_params, out_params, p_intf ) *)
CallHandler(handler, in_params, p) ==
    CASE handler = "handle_AVT_SetAVTransportURI" ->
             handle_AVT_SetAVTransportURI(in_params, p)
      [] handler = "handle_AVT_GetMediaInfo" ->
             handle_AVT_GetMediaInfo(in_params, p)
      [] handler = "handle_AVT_GetTransportInfo" ->
             handle_AVT_GetTransportInfo(in_params, p)
      [] handler = "handle_AVT_GetPositionInfo" ->
             handle_AVT_GetPositionInfo(in_params, p)
      [] handler = "handle_AVT_Stop" -> handle_AVT_Stop(in_params, p)
      [] handler = "handle_AVT_Play" -> handle_AVT_Play(in_params, p)
      [] handler = "handle_AVT_Pause" -> handle_AVT_Pause(in_params, p)
      [] handler = "handle_AVT_Seek" -> handle_AVT_Seek(in_params, p)
      [] handler = "handle_CM_GetProtocolInfo" ->
             handle_CM_GetProtocolInfo(in_params, p)
      [] handler = "handle_RC_GetVolume" -> handle_RC_GetVolume(in_params, p)
      [] handler = "handle_RC_SetVolume" -> handle_RC_SetVolume(in_params, p)
      [] handler = "handle_RC_GetMute" -> handle_RC_GetMute(in_params, p)
      [] handler = "handle_RC_SetMute" -> handle_RC_SetMute(in_params, p)

(***************************************************************************)
(* build_param_map.  A child element is [name, first]: name is <<>> for a  *)
(* NULL node name, else <<n>>; first is <<>> when the element has no child *)
(* node, else <<v>> with v = <<>> for a NULL node value, else <<text>>.    *)
(* The map is a function from parameter names to values.                   *)
(***************************************************************************)
EmptyMap == <<>>

(* MapSet as an insert that leaves an existing key alone. *)
MapSet_keeps_first(params, key, value) ==
    [k \in DOMAIN params \cup {key} |->
        IF k \in DOMAIN params THEN params[k] ELSE value]

MapSet(params, key, value) ==
    [k \in DOMAIN params \cup {key} |->
        IF k = key THEN value ELSE params[k]]

RECURSIVE build_param_map_from(_, _, _)
build_param_map_from(children, i, params) ==
    IF i > Len(children) THEN params
    ELSE
        LET param == children[i]
        IN  IF param.name = <<>>
            THEN build_param_map_from(children, i + 1, params)
            ELSE IF param.first = <<>>
            THEN build_param_map_from(children, i + 1, params)
            ELSE IF param.first[1] = <<>>
            THEN build_param_map_from(children, i + 1, params)
            ELSE build_param_map_from(children, i + 1,
                     MapSet(params, param.name[1], param.first[1][1]))

build_param_map(p_node) == build_param_map_from(p_node, 1, EmptyMap)

(***************************************************************************)
(* build_event_xml.  The document is serialised by ixmlNodetoString, which *)
(* writes every attribute value through its own escaping, and the whole    *)
(* serialised text is then escaped once more to be carried as the value of *)
(* the LastChange variable.  Markup names are single elements of the text; *)
(* everything the escaping looks at is one character per element.          *)
(***************************************************************************)
RECURSIVE regex_replace(_, _, _)
regex_replace(str, c, repl) ==
    IF str = <<>> THEN <<>>
    ELSE (IF Head(str) = c THEN repl ELSE <<Head(str)>>) \o
         regex_replace(Tail(str), c, repl)

E_amp == <<"&", "a", "m", "p", ";">>

E_quot == <<"&", "q", "u", "o", "t", ";">>

E_apos == <<"&", "a", "p", "o", "s", ";">>

E_lt == <<"&", "l", "t", ";">>

E_gt == <<"&", "g", "t", ";">>

(* xml_encode with the ampersand replaced last. *)
xml_encode_amp_last(xmlstr) ==
    LET s1 == regex_replace(xmlstr, "\"", E_quot)
        s2 == regex_replace(s1, "'", E_apos)
        s3 == regex_replace(s2, "<", E_lt)
        s4 == regex_replace(s3, ">", E_gt)
        s5 == regex_replace(s4, "&", E_amp)
    IN  s5

(* The escaping of the serialised document: five replacements in turn, the
   ampersand first. *)
xml_encode(xmlstr) ==
    LET s1 == regex_replace(xmlstr, "&", E_amp)
        s2 == regex_replace(s1, "\"", E_quot)
        s3 == regex_replace(s2, "'", E_apos)
        s4 == regex_replace(s3, "<", E_lt)
        s5 == regex_replace(s4, ">", E_gt)
    IN  s5

(* The escaping ixml applies to an attribute value while serialising. *)
RECURSIVE copy_with_escape(_)
copy_with_escape(p) ==
    IF p = <<>> THEN <<>>
    ELSE (CASE Head(p) = "<" -> E_lt
            [] Head(p) = ">" -> E_gt
            [] Head(p) = "&" -> E_amp
            [] Head(p) = "'" -> E_apos
            [] Head(p) = "\"" -> E_quot
            [] OTHER -> <<Head(p)>>) \o copy_with_escape(Tail(p))

PrintAttr(name, value) ==
    <<" ", name, "=", "\"">> \o copy_with_escape(value) \o <<"\"">>

RECURSIVE PrintArgs(_)
PrintArgs(args) ==
    IF args = <<>> THEN <<>>
    ELSE <<"<", Head(args).name>> \o PrintAttr("val", Head(args).val) \o
         <<">", "<", "/", Head(args).name, ">">> \o PrintArgs(Tail(args))

(* ixmlNodetoString of Event / InstanceID / one element per argument. *)
ixmlNodetoString(doc) ==
    <<"<", "Event", ">", "<", "InstanceID">> \o
    PrintAttr("val", doc.instance_val) \o <<">">> \o
    PrintArgs(doc.args) \o
    <<"<", "/", "InstanceID", ">", "<", "/", "Event", ">">>

(* The library calls of build_event_xml that can fail, in order: six to set
   up Event and InstanceID, three per argument, then ixmlNodetoString and
   the final escaping. *)
EventCalls(count) == 6 + 3 * count + 2

(* build_event_xml giving up when there is no pair to encode. *)
build_event_xml_needs_pair(keys, values, count, fail) ==
    LET doc == [instance_val |-> S_0,
                args |-> [i \in 1..count |->
                             [name |-> keys[i], val |-> values[i]]]]
        xmlbuf == ixmlNodetoString(doc)
    IN  IF count = 0 \/ fail \in 1..EventCalls(count) THEN <<>>
        ELSE <<xml_encode(xmlbuf)>>

(* build_event_xml( keys, values, count ) when the fail-th library call
   fails (none for fail = 0): <<>> is the null result, else <<text>>. *)
build_event_xml(keys, values, count, fail) ==
    LET doc == [instance_val |-> S_0,
                args |-> [i \in 1..count |->
                             [name |-> keys[i], val |-> values[i]]]]
        xmlbuf == ixmlNodetoString(doc)
    IN  IF fail \in 1..EventCalls(count) THEN <<>>
        ELSE <<xml_encode(xmlbuf)>>

(***************************************************************************)
(* EventHandler::onActionRequest.                                          *)
(*                                                                         *)
(* A request is [service, action, body]: body is <<>> for a NULL document, *)
(* else <<elements>>, the sequence of top-level child elements, each the   *)
(* sequence of its own children.  While it runs the dispatcher carries     *)
(*   p            the player and the player calls made so far              *)
(*   ErrCode      the request's error code, ErrCodeSets the number of      *)
(*                UpnpActionRequest_set_ErrCode calls made                 *)
(*   ActionResult <<>> for NULL, else <<d>>, the attached response         *)
(*   invoked      the handler invocations, in order                        *)
(*   appended     the UpnpAddToActionResponse calls, in order, with codes  *)
(* and it ends as "returned" with the value ret, or as "thrown".           *)
(***************************************************************************)
(* The codes a failing UpnpAddToActionResponse returns: UPNP_E_OUTOF_MEMORY
   and UPNP_E_INVALID_PARAM. *)
AppendErrors == {-104, -101}

Reverse(seq) == [i \in 1..Len(seq) |-> seq[Len(seq) + 1 - i]]

(* for( auto& x : out_params ): the order of an unordered_map is not the
   order of insertion; the model takes the insertion order and its reverse. *)
IterationOrders(out) == {out, Reverse(out)}

EntryState(p) ==
    [p |-> p, ErrCode |-> UPNP_E_SUCCESS, ErrCodeSets |-> 0,
     ActionResult |-> <<>>, invoked |-> <<>>, appended |-> <<>>]

set_ErrCode(st, code) ==
    [st EXCEPT !.ErrCode = code, !.ErrCodeSets = @ + 1]

Outcome(st, phase, ret, thrown) ==
    [phase |-> phase, ret |-> ret, thrown |-> thrown, p |-> st.p,
     ErrCode |-> st.ErrCode, ErrCodeSets |-> st.ErrCodeSets,
     ActionResult |-> st.ActionResult, invoked |-> st.invoked,
     appended |-> st.appended]

(* One UpnpAddToActionResponse call that returned UPNP_E_SUCCESS. *)
AppendDone(st, pair) ==
    [st EXCEPT !.ActionResult[1].args = Append(@, pair),
               !.appended = Append(@, [pair |-> pair, r |-> UPNP_E_SUCCESS])]

(* AppendFailed without UpnpActionRequest_set_ActionResult( p_event, NULL ):
   the freed document stays attached to the request. *)
AppendFailed_keeps_result(st, pair, r) ==
    Outcome(set_ErrCode([st EXCEPT
                            !.appended = Append(@, [pair |-> pair, r |-> r])],
                        r),
            "returned", r, NoException)

(* One UpnpAddToActionResponse call that returned r # UPNP_E_SUCCESS: the
   document is freed, the result cleared, the code recorded and returned. *)
AppendFailed(st, pair, r) ==
    Outcome(set_ErrCode([st EXCEPT
                            !.ActionResult = <<>>,
                            !.appended = Append(@, [pair |-> pair, r |-> r])],
                        r),
            "returned", r, NoException)

(* The loop over out_params, from its i-th pair on. *)
RECURSIVE AppendLoop(_, _, _)
AppendLoop(st, order, i) ==
    IF i > Len(order)
    THEN {Outcome(set_ErrCode(st, UPNP_E_SUCCESS), "returned",
                  UPNP_E_SUCCESS, NoException)}
    ELSE AppendLoop(AppendDone(st, order[i]), order, i + 1)
         \cup {AppendFailed(st, order[i], r) : r \in AppendErrors}

(* Mismatch with && for ||: an entry is skipped only when both differ. *)
Mismatch_both(entry, service_id, action_name) ==
    entry.service # service_id /\ entry.action # action_name

(* strcmp( actions[i].service, service_id ) ||
   strcmp( actions[i].action, action_name ) *)
Mismatch(entry, service_id, action_name) ==
    entry.service # service_id \/ entry.action # action_name

(* The two nested loops, from element e and table entry i on. *)
RECURSIVE ActionLoop(_, _, _, _)
ActionLoop(req, e, i, st) ==
    IF e > Len(req.body[1])
    THEN {Outcome(set_ErrCode(st, UPNP_E_INTERNAL_ERROR), "returned",
                  UPNP_E_INTERNAL_ERROR, NoException)}
    ELSE IF i > Len(actions) THEN ActionLoop(req, e + 1, 1, st)
    ELSE IF Mismatch(actions[i], req.service, req.action)
    THEN ActionLoop(req, e, i + 1, st)
    ELSE
        LET in_params == build_param_map(req.body[1][e])
        IN  UNION {
              LET st1 == [st EXCEPT
                             !.p = r.p,
                             !.invoked = Append(@,
                                 [element |-> e, entry |-> i, ok |-> r.ok,
                                  thrown |-> r.thrown, out |-> r.out,
                                  ncalls |-> Len(r.p.calls)])]
                  d == [name |-> <<req.action, "Response">>,
                        service |-> req.service, args |-> <<>>]
              IN  IF r.thrown # NoException
                  THEN {Outcome(st1, "thrown", 0, r.thrown)}
                  ELSE IF ~r.ok THEN ActionLoop(req, e, i + 1, st1)
                  ELSE
                      (* UpnpMakeActionResponse returned NULL *)
                      ActionLoop(req, e, i + 1, st1)
                      \cup
                      UNION {AppendLoop([st1 EXCEPT !.ActionResult = <<d>>],
                                        order, 1) :
                             order \in IterationOrders(r.out)}
              : r \in CallHandler(actions[i].handler, in_params, st.p)}

onActionRequest(req, pl) ==
    LET st == EntryState([pl |-> pl, calls |-> <<>>])
    IN  IF req.body = <<>>
        THEN {Outcome(st, "returned", 0, NoException)}
        ELSE ActionLoop(req, 1, 1, st)

(***************************************************************************)
(* The event publisher and the router.                                     *)
(*                                                                         *)
(* A call into the transport is recorded as [api, udn, service, var_keys,  *)
(* var_values, count, ret] (and sid for an accepted subscription); a       *)
(* pointer to a text is <<>> for NULL and <<text>> otherwise.  fail is the *)
(* library call of build_event_xml that fails (0 for none), ret the status *)
(* the transport returns.                                                  *)
(***************************************************************************)
(* p_upnp->udn(): the device's own identifier. *)
DeviceUDN == "uuid:renderer"

(* The statuses UpnpNotify and UpnpAcceptSubscription return: success, or
   one of the failure codes. *)
TransportRets == {UPNP_E_SUCCESS} \cup AppendErrors

UpnpNotify(udn, sid, var_keys, var_values, count, ret) ==
    [api |-> "UpnpNotify", udn |-> udn, service |-> sid,
     var_keys |-> var_keys, var_values |-> var_values, count |-> count,
     ret |-> ret]

(* emit_event without the early return: the null body is handed on. *)
emit_event_sends_null(sid, key, value, fail, ret) ==
    LET event_keys == <<key>>
        event_values == <<value>>
        event_xml == build_event_xml(event_keys, event_values, 1, fail)
        var_keys == <<"LastChange">>
        var_values == <<event_xml>>
    IN  [sid |-> sid, key |-> key, value |-> value, event_xml |-> event_xml,
         calls |-> <<UpnpNotify(DeviceUDN, sid, var_keys, var_values, 1,
                                ret)>>]

(* emit_event( p_intf, sid, key, value ): what was asked to be published,
   the body built for it and the calls made to the transport. *)
emit_event(sid, key, value, fail, ret) ==
    LET event_keys == <<key>>
        event_values == <<value>>
        event_xml == build_event_xml(event_keys, event_values, 1, fail)
        var_keys == <<"LastChange">>
        var_values == <<event_xml>>
    IN  [sid |-> sid, key |-> key, value |-> value, event_xml |-> event_xml,
         calls |-> IF event_xml = <<>> THEN <<>>
                   ELSE <<UpnpNotify(DeviceUDN, sid, var_keys, var_values, 1,
                                     ret)>>]

(* A player callback yields the sequence of its emit_event calls. *)
(* player_state_changed publishing on RenderingControl. *)
player_state_changed_on_rc(state, fail, ret) ==
    <<emit_event(SRV_RC, "TransportState", TransportStateName(state), fail,
                 ret)>>

player_state_changed(state, fail, ret) ==
    LET new_state == TransportStateName(state)
    IN  <<emit_event(SRV_AVT, "TransportState", new_state, fail, ret)>>

player_rate_changed(new_rate, fail, ret) ==
    <<emit_event(SRV_AVT, "TransportPlaySpeed", float_to_frac(new_rate), fail,
                 ret)>>

(* player_aout_volume_changed scaling the range 0.0 .. 2.0 by 50. *)
player_aout_volume_changed_scaled_50(new_volume, fail, ret) ==
    LET clipped == VLC_CLIP(new_volume, 0, 2000)
        v == to_string(lround_volume(clipped) \div 2)
    IN  <<emit_event(SRV_RC, "Volume", v, fail, ret)>>

(* new_volume is in thousandths, as the player's volume is. *)
player_aout_volume_changed(new_volume, fail, ret) ==
    LET clipped == VLC_CLIP(new_volume, 0, 1000)
        v == to_string(lround_volume(clipped))
    IN  <<emit_event(SRV_RC, "Volume", v, fail, ret)>>

player_aout_mute_changed(new_mute, fail, ret) ==
    LET m == IF new_mute THEN S_1 ELSE S_0
    IN  <<emit_event(SRV_RC, "Mute", m, fail, ret)>>

UpnpAcceptSubscription(udn, service_id, keys, values, count, sid, ret) ==
    [api |-> "UpnpAcceptSubscription", udn |-> udn, service |-> service_id,
     var_keys |-> keys, var_values |-> values, count |-> count,
     sid |-> sid, ret |-> ret]

(* The acceptance calling the transport again after a failure. *)
AcceptSubscription_retries(p_event, event_xml, ret) ==
    LET var_keys == <<"LastChange">>
        var_values == <<event_xml>>
        call == UpnpAcceptSubscription(p_event.udn, p_event.service_id,
                                       var_keys, var_values,
                                       IF event_xml # <<>> THEN 1 ELSE 0,
                                       p_event.sid, ret)
    IN  IF ret # UPNP_E_SUCCESS THEN <<call, call>> ELSE <<call>>

(* The UpnpAcceptSubscription call of onSubscriptionRequest and the test of
   its status, which only logs. *)
AcceptSubscription(p_event, event_xml, ret) ==
    LET var_keys == <<"LastChange">>
        var_values == <<event_xml>>
    IN  <<UpnpAcceptSubscription(p_event.udn, p_event.service_id,
                                 var_keys, var_values,
                                 IF event_xml # <<>> THEN 1 ELSE 0,
                                 p_event.sid, ret)>>

(* onSubscriptionRequest announcing one variable whatever was built. *)
onSubscriptionRequest_always_one(p_event, fail, ret) ==
    LET event_xml == build_event_xml(<<>>, <<>>, 0, fail)
        calls == AcceptSubscription(p_event, event_xml, ret)
    IN  [event_xml |-> event_xml,
         calls |-> [i \in DOMAIN calls |-> [calls[i] EXCEPT !.count = 1]],
         ret |-> ret]

(* EventHandler::onSubscriptionRequest: the body built, the calls made to
   the transport and the value returned. *)
onSubscriptionRequest(p_event, fail, ret) ==
    LET event_xml == build_event_xml(<<>>, <<>>, 0, fail)
    IN  [event_xml |-> event_xml,
         calls |-> AcceptSubscription(p_event, event_xml, ret),
         ret |-> ret]

(* enum Upnp_EventType, as far as the router tells its values apart. *)
Upnp_EventTypes ==
    {"UPNP_CONTROL_ACTION_REQUEST", "UPNP_CONTROL_GET_VAR_REQUEST",
     "UPNP_EVENT_SUBSCRIPTION_REQUEST", "UPNP_EVENT_RENEWAL_COMPLETE",
     "UPNP_DISCOVERY_SEARCH_RESULT"}

(* What one run of onEvent did: the member function it called, the value it
   returned or the exception that left it, the event object and the player
   afterwards, and the calls made to the transport. *)
Routed(handler, ret, thrown, p_event, p, calls) ==
    [handler |-> handler, ret |-> ret, thrown |-> thrown,
     p_event |-> p_event, p |-> p, calls |-> calls]

(* onEvent answering a variable query itself, with an error code. *)
onEvent_answers_query(event_type, p_event, pl, fail, ret) ==
    LET p == [pl |-> pl, calls |-> <<>>]
    IN  CASE event_type = "UPNP_CONTROL_ACTION_REQUEST" ->
               {Routed("onActionRequest", o.ret, o.thrown,
                       [p_event EXCEPT !.ErrCode = o.ErrCode,
                                       !.ActionResult = o.ActionResult],
                       o.p, <<>>) : o \in onActionRequest(p_event, pl)}
          [] event_type = "UPNP_EVENT_SUBSCRIPTION_REQUEST" ->
               LET r == onSubscriptionRequest(p_event, fail, ret)
               IN  {Routed("onSubscriptionRequest", r.ret, NoException,
                           p_event, p, r.calls)}
          [] event_type = "UPNP_CONTROL_GET_VAR_REQUEST" ->
               {Routed("onGetVarRequest", 0, NoException,
                       [p_event EXCEPT !.ErrCode = UPNP_E_INTERNAL_ERROR],
                       p, <<>>)}
          [] OTHER -> {Routed("none", 0, NoException, p_event, p, <<>>)}

(* EventHandler::onEvent( event_type, p_event, p_user_data ) *)
onEvent(event_type, p_event, pl, fail, ret) ==
    LET p == [pl |-> pl, calls |-> <<>>]
    IN  CASE event_type = "UPNP_CONTROL_ACTION_REQUEST" ->
               {Routed("onActionRequest", o.ret, o.thrown,
                       [p_event EXCEPT !.ErrCode = o.ErrCode,
                                       !.ActionResult = o.ActionResult],
                       o.p, <<>>) : o \in onActionRequest(p_event, pl)}
          [] event_type = "UPNP_EVENT_SUBSCRIPTION_REQUEST" ->
               LET r == onSubscriptionRequest(p_event, fail, ret)
               IN  {Routed("onSubscriptionRequest", r.ret, NoException,
                           p_event, p, r.calls)}
          [] OTHER -> {Routed("none", 0, NoException, p_event, p, <<>>)}

(***************************************************************************)
(* State.                                                                  *)
(*   player   the player shared by all requests                            *)
(*   request  the action request in the hands of the dispatcher: idle, or  *)
(*            the request together with the outcome of onActionRequest     *)
(*   served   the number of requests and callbacks served so far           *)
(*   pmap     an application of build_param_map: its input, then its map   *)
(*   event    an application of build_event_xml: its input, then its text  *)
(*   upnp     the callback the transport or the player is making into the  *)
(*            module: idle, or the callback together with what it did      *)
(*   conv     an application of a conversion between a value and its text: *)
(*            its input, then what it produced                             *)
(*   wrapper  UpnpInstanceWrapper: the instance, its counts, s_listeners   *)
(*            and s_lock                                                   *)
(*   intf     one interface object of the module: where its thread is in   *)
(*            OpenControl or CloseControl, p_intf->p_sys and its members   *)
(***************************************************************************)
VARIABLES player, request, served, pmap, event, upnp, conv, wrapper, intf

vars == <<player, request, served, pmap, event, upnp, conv, wrapper, intf>>

MaxRequests == 2

Idle == [phase |-> "idle"]

NoPmap == [phase |-> "none"]

NoEvent == [phase |-> "none"]

NoCallback == [phase |-> "idle"]

NoConv == [phase |-> "none"]

NoWrapper == [phase |-> "none"]

NoIntf == [phase |-> "none"]

(***************************************************************************)
(* Inputs of the dispatcher.                                               *)
(***************************************************************************)
Child(name, value) == [name |-> <<name>>, first |-> << <<value>> >>]

ChildNoText(name) == [name |-> <<name>>, first |-> <<>>]

ChildNoValue(name) == [name |-> <<name>>, first |-> << <<>> >>]

ChildNoName(value) == [name |-> <<>>, first |-> << <<value>> >>]

V_uri == <<"http://x/y.mp4">>

V_half == <<"1", "/", "2">>

V_x == <<"x">>

V_ok_target == <<"0", ":", "0", "1", ":", "0", "5">>

V_bad_minutes == <<"0", "0", ":", "6", "1", ":", "0", "0">>

V_mmss == <<"0", "5", ":", "3", "0">>

V_50 == <<"5", "0">>

V_150 == <<"1", "5", "0">>

V_abc == <<"a", "b", "c">>

V_minus5 == <<"-", "5">>

V_maybe == <<"m", "a", "y", "b", "e">>

V_TRACK_NR == <<"TRACK_NR">>

(* The parameter lists a request element is drawn from, by action name. *)
ParamLists(action) ==
    CASE action = "SetAVTransportURI" ->
             {<<>>, <<Child("CurrentURI", V_uri)>>}
      [] action = "Play" ->
             {<<>>, <<Child("Speed", S_1)>>, <<Child("Speed", V_half)>>,
              <<Child("Speed", V_x)>>,
              <<Child("Speed", V_half), Child("Speed", S_1)>>,
              <<ChildNoText("Speed")>>}
      [] action = "Seek" ->
             {<<>>, <<Child("Unit", S_REL_TIME)>>,
              <<Child("Unit", S_REL_TIME), Child("Target", V_ok_target)>>,
              <<Child("Unit", S_REL_TIME), Child("Target", V_bad_minutes)>>,
              <<Child("Unit", S_ABS_TIME), Child("Target", V_mmss)>>,
              <<Child("Unit", S_ABS_TIME), Child("Target", V_x)>>,
              <<Child("Unit", V_TRACK_NR), Child("Target", S_1)>>}
      [] action = "SetVolume" ->
             {<<>>, <<Child("DesiredVolume", V_50)>>,
              <<Child("DesiredVolume", V_150)>>,
              <<Child("DesiredVolume", V_abc)>>,
              <<Child("DesiredVolume", V_minus5)>>}
      [] action = "SetMute" ->
             {<<>>, <<Child("DesiredMute", S_1)>>,
              <<Child("DesiredMute", S_no)>>,
              <<Child("DesiredMute", V_maybe)>>}
      [] OTHER -> {<<>>, <<Child("InstanceID", S_0)>>}

SeqsUpTo(S, n) == UNION {[1..k -> S] : k \in 0..n}

Bodies(action) ==
    {<<>>} \cup {<<els>> : els \in SeqsUpTo(ParamLists(action), MaxElems)}

(* The (service, action) pairs requested: every table entry, and pairs that
   are in no entry. *)
RequestPairs ==
    {<<actions[i].service, actions[i].action>> : i \in 1..Len(actions)}
    \cup {<<"X", "Y">>, <<SRV_RC, "Play">>, <<SRV_AVT, "GetVolume">>,
          <<SRV_AVT, "play">>, <<"urn:upnp-org:serviceId:avtransport", "Play">>}

Requests ==
    UNION {{[service |-> sa[1], action |-> sa[2], body |-> b] :
            b \in Bodies(sa[2])} : sa \in RequestPairs}

Tick(sec, usec) == [sec |-> sec, usec |-> usec]

PlayerInits ==
    {[media |-> NoMedia, state |-> "STOPPED", error |-> "NONE",
      rate |-> RateOne, length |-> Tick(0, 0), time |-> Tick(0, 0),
      volume |-> 1000, mute |-> FALSE],
     [media |-> <<"http://x/old.mp4">>, state |-> "PLAYING", error |-> "NONE",
      rate |-> RateOne, length |-> Tick(90000, 0), time |-> Tick(3725, 500000),
      volume |-> 505, mute |-> FALSE],
     [media |-> <<"http://x/old.mp4">>, state |-> "PAUSED",
      error |-> "GENERIC", rate |-> Rat(-1, 2), length |-> Tick(59, 999999),
      time |-> Tick(0, 1), volume |-> 2000, mute |-> TRUE]}

(***************************************************************************)
(* The dispatcher serving requests.                                        *)
(***************************************************************************)
Init ==
    /\ player \in PlayerInits
    /\ request = Idle
    /\ served = 0
    /\ pmap = NoPmap
    /\ event = NoEvent
    /\ upnp = NoCallback
    /\ conv = NoConv
    /\ wrapper = NoWrapper
    /\ intf = NoIntf

(* The transport hands one action request to EventHandler::onActionRequest,
   which runs to its end. *)
ActionRequest ==
    /\ request.phase = "idle"
    /\ served < MaxRequests
    /\ \E req \in Requests :
         \E o \in onActionRequest(req, player) :
            /\ request' = [phase |-> o.phase, service |-> req.service,
                           action |-> req.action, body |-> req.body,
                           before |-> player, after |-> o.p.pl,
                           ret |-> o.ret,
                           thrown |-> o.thrown, calls |-> o.p.calls,
                           ErrCode |-> o.ErrCode,
                           ErrCodeSets |-> o.ErrCodeSets,
                           ActionResult |-> o.ActionResult,
                           invoked |-> o.invoked, appended |-> o.appended]
            /\ player' = o.p.pl
    /\ served' = served + 1
    /\ UNCHANGED <<pmap, event, upnp, conv, wrapper, intf>>

(* The transport answers the control point and frees the request. *)
RequestDone ==
    /\ request.phase # "idle"
    /\ request' = Idle
    /\ UNCHANGED <<player, served, pmap, event, upnp, conv, wrapper, intf>>

(* The player leaves a transitional state on its own. *)
PlayerProgress ==
    /\ player.state \in {"STARTED", "STOPPING"}
    /\ player' = [player EXCEPT
                     !.state = IF @ = "STARTED" THEN "PLAYING" ELSE "STOPPED"]
    /\ UNCHANGED <<request, served, pmap, event, upnp, conv, wrapper, intf>>

Next == ActionRequest \/ RequestDone \/ PlayerProgress

Spec == Init /\ [][Next]_vars

(***************************************************************************)
(* build_param_map applied to every list of at most MaxChildren children   *)
(* made of a present or absent name and a present, empty or absent text.   *)
(***************************************************************************)
ChildNames == {<<>>, <<"Speed">>, <<"Unit">>}

ChildFirsts == {<<>>, << <<>> >>, << <<S_1>> >>, << <<V_half>> >>}

Children == [name : ChildNames, first : ChildFirsts]

InitParams ==
    /\ player \in {pl \in PlayerInits : pl.state = "STOPPED"}
    /\ request = Idle
    /\ served = 0
    /\ pmap \in {[phase |-> "input", children |-> c] :
                 c \in SeqsUpTo(Children, MaxChildren)}
    /\ event = NoEvent
    /\ upnp = NoCallback
    /\ conv = NoConv
    /\ wrapper = NoWrapper
    /\ intf = NoIntf

BuildParamMap ==
    /\ pmap.phase = "input"
    /\ pmap' = [phase |-> "done", children |-> pmap.children,
                params |-> build_param_map(pmap.children)]
    /\ UNCHANGED <<player, request, served, event, upnp, conv, wrapper, intf>>

NextParams == BuildParamMap

SpecParams == InitParams /\ [][NextParams]_vars

(***************************************************************************)
(* build_event_xml applied to at most MaxPairs pairs whose values are made *)
(* of the characters the escaping replaces and of plain ones, with each    *)
(* library call failing in turn.                                           *)
(***************************************************************************)
MaxValueLen == 2

EventKeys == {"Volume", "TransportState"}

ValueChars == {"a", "&", "\"", "'", "<", ">", ";"}

V_test == <<"a", "&", "<", "b", "\"">>

EventValues == SeqsUpTo(ValueChars, MaxValueLen) \cup {V_test}

(* Several pairs at once are given values of at most one character. *)
EventInputs ==
    UNION {{[phase |-> "input", keys |-> k, values |-> v, count |-> n,
             fail |-> f] :
            k \in [1..n -> EventKeys],
            v \in [1..n -> IF n <= 1 THEN EventValues
                           ELSE SeqsUpTo(ValueChars, 1)],
            f \in 0..EventCalls(n)} : n \in 0..MaxPairs}

InitEvent ==
    /\ player \in {pl \in PlayerInits : pl.state = "STOPPED"}
    /\ request = Idle
    /\ served = 0
    /\ pmap = NoPmap
    /\ event \in EventInputs
    /\ upnp = NoCallback
    /\ conv = NoConv
    /\ wrapper = NoWrapper
    /\ intf = NoIntf

BuildEventXml ==
    /\ event.phase = "input"
    /\ event' = [event EXCEPT !.phase = "done"] @@
                [result |-> build_event_xml(event.keys, event.values,
                                            event.count, event.fail)]
    /\ UNCHANGED <<player, request, served, pmap, upnp, conv, wrapper, intf>>

NextEvent == BuildEventXml

SpecEvent == InitEvent /\ [][NextEvent]_vars

(***************************************************************************)
(* The callbacks: the player reporting a change of its state, rate, volume *)
(* or mute flag, and the transport handing an event of any type to         *)
(* onEvent.  Each runs to its end; upnp then holds what it did.            *)
(***************************************************************************)
(* The rates the player reports. *)
PlayerRates == {RateOne, Rat(1, 2), Rat(-1, 2)}

(* The volumes the player reports, in thousandths: below and above the
   range, one that rounds down and one that rounds up. *)
PlayerVolumes == {-1000, 4, 505, 2000}

(* The event objects handed to onEvent, by event type. *)
EventObjects(event_type) ==
    CASE event_type = "UPNP_CONTROL_ACTION_REQUEST" ->
             {[service |-> r.service, action |-> r.action, body |-> r.body,
               ErrCode |-> UPNP_E_SUCCESS, ActionResult |-> <<>>] :
              r \in {q \in Requests :
                        <<q.service, q.action>> \in
                            {<<SRV_AVT, "Pause">>, <<"X", "Y">>}}}
      [] event_type = "UPNP_EVENT_SUBSCRIPTION_REQUEST" ->
             [service_id : {SRV_AVT, SRV_RC, SRV_CM},
              udn : {DeviceUDN, "uuid:other"},
              sid : {"uuid:sub-1", "uuid:sub-2"}]
      [] event_type = "UPNP_CONTROL_GET_VAR_REQUEST" ->
             [service_id : {SRV_AVT, SRV_RC}, udn : {DeviceUDN},
              StateVarName : {"Volume"}, ErrCode : {UPNP_E_SUCCESS}]
      [] OTHER -> {[sid |-> "uuid:sub-1"]}

InitRouter ==
    /\ player \in PlayerInits
    /\ request = Idle
    /\ served = 0
    /\ pmap = NoPmap
    /\ event = NoEvent
    /\ upnp = NoCallback
    /\ conv = NoConv
    /\ wrapper = NoWrapper
    /\ intf = NoIntf

(* What a player callback did. *)
Published(kind, arg, emits) ==
    [phase |-> "done", kind |-> kind, arg |-> arg, before |-> player,
     emits |-> emits, calls |-> emits[1].calls, returned |-> TRUE]

(* The player enters another state and calls on_state_changed. *)
PlayerStateChanged ==
    /\ upnp.phase = "idle"
    /\ served < MaxRequests
    /\ \E state \in PlayerStates \ {player.state} :
         \E fail \in 0..EventCalls(1), ret \in TransportRets :
            /\ upnp' = Published("player_state_changed", state,
                                 player_state_changed(state, fail, ret))
            /\ player' = [player EXCEPT !.state = state]
    /\ served' = served + 1
    /\ UNCHANGED <<request, pmap, event, conv, wrapper, intf>>

(* The player takes another rate and calls on_rate_changed. *)
PlayerRateChanged ==
    /\ upnp.phase = "idle"
    /\ served < MaxRequests
    /\ \E new_rate \in PlayerRates \ {player.rate} :
         \E fail \in 0..EventCalls(1), ret \in TransportRets :
            /\ upnp' = Published("player_rate_changed", new_rate,
                                 player_rate_changed(new_rate, fail, ret))
            /\ player' = [player EXCEPT !.rate = new_rate]
    /\ served' = served + 1
    /\ UNCHANGED <<request, pmap, event, conv, wrapper, intf>>

(* The audio output takes another volume and calls on_volume_changed. *)
PlayerAoutVolumeChanged ==
    /\ upnp.phase = "idle"
    /\ served < MaxRequests
    /\ \E new_volume \in PlayerVolumes \ {player.volume} :
         \E fail \in 0..EventCalls(1), ret \in TransportRets :
            /\ upnp' = Published("player_aout_volume_changed", new_volume,
                                 player_aout_volume_changed(new_volume, fail,
                                                            ret))
            /\ player' = [player EXCEPT !.volume = new_volume]
    /\ served' = served + 1
    /\ UNCHANGED <<request, pmap, event, conv, wrapper, intf>>

(* The audio output is muted or unmuted and calls on_mute_changed. *)
PlayerAoutMuteChanged ==
    /\ upnp.phase = "idle"
    /\ served < MaxRequests
    /\ \E new_mute \in BOOLEAN \ {player.mute} :
         \E fail \in 0..EventCalls(1), ret \in TransportRets :
            /\ upnp' = Published("player_aout_mute_changed", new_mute,
                                 player_aout_mute_changed(new_mute, fail, ret))
            /\ player' = [player EXCEPT !.mute = new_mute]
    /\ served' = served + 1
    /\ UNCHANGED <<request, pmap, event, conv, wrapper, intf>>

(* The transport hands an event to onEvent. *)
Event ==
    /\ upnp.phase = "idle"
    /\ served < MaxRequests
    /\ \E event_type \in Upnp_EventTypes :
         \E p_event \in EventObjects(event_type) :
            \E fail \in 0..EventCalls(0), ret \in TransportRets :
               \E o \in onEvent(event_type, p_event, player, fail, ret) :
                  /\ upnp' = [phase |-> "done", kind |-> "onEvent",
                              event_type |-> event_type, before |-> player,
                              p_event |-> p_event, after |-> o.p_event,
                              handler |-> o.handler, ret |-> o.ret,
                              thrown |-> o.thrown,
                              player_calls |-> o.p.calls,
                              calls |-> o.calls,
                              returned |-> o.thrown = NoException]
                  /\ player' = o.p.pl
    /\ served' = served + 1
    /\ UNCHANGED <<request, pmap, event, conv, wrapper, intf>>

(* The callback has returned to its caller. *)
CallbackDone ==
    /\ upnp.phase = "done"
    /\ upnp' = NoCallback
    /\ UNCHANGED <<player, request, served, pmap, event, conv, wrapper, intf>>

NextRouter ==
    \/ PlayerStateChanged
    \/ PlayerRateChanged
    \/ PlayerAoutVolumeChanged
    \/ PlayerAoutMuteChanged
    \/ Event
    \/ CallbackDone

SpecRouter == InitRouter /\ [][NextRouter]_vars

(***************************************************************************)
(* The conversions between values and their texts, applied to bounded      *)
(* inputs: a tick written by time_to_string and read back as Seek reads    *)
(* its Target, a rate n/d written by float_to_frac, a Speed text read by   *)
(* frac_to_float, a volume and a mute flag set and read back by the        *)
(* RenderingControl handlers, and the player seen by GetTransportInfo.     *)
(***************************************************************************)
MaxSeconds == 3700

MaxNum == 6

MaxDen == 10

MaxFracLen == 3

MaxDesired == 150

FracChars == {"0", "2", "5", "/", "-", "x"}

(* Every Speed text of up to MaxFracLen characters. *)
FracTexts ==
    {[phase |-> "input", fn |-> "parse", text |-> t] :
     t \in SeqsUpTo(FracChars, MaxFracLen)}

(* Every DesiredVolume 0..MaxDesired, written in decimal. *)
VolumeInputs ==
    {[phase |-> "input", fn |-> "volume", v |-> v] : v \in 0..MaxDesired}

MuteTexts ==
    {S_1, S_true, S_yes, S_0, S_false, S_no, S_empty, <<"2">>,
     <<"T", "R", "U", "E">>, <<"o", "n">>, <<" ", "1">>}

(* DesiredMute with each text, and the request without DesiredMute. *)
MuteInputs ==
    {[phase |-> "input", fn |-> "mute", present |-> TRUE, text |-> t] :
     t \in MuteTexts} \cup
    {[phase |-> "input", fn |-> "mute", present |-> FALSE, text |-> S_empty]}

(* Player volumes in thousandths: no audio (-1.0), the range 0.0 .. 2.0. *)
LevelInputs ==
    {[phase |-> "input", fn |-> "level", volume |-> x] :
     x \in {-1000, 0, 4, 5, 14, 15, 505, 994, 995, 1000, 1001, 1500, 2000}}

(* Every player state and error, with one value outside each enumeration. *)
TransportInputs ==
    {[phase |-> "input", fn |-> "transport", state |-> st, error |-> er,
      rate |-> r] :
     st \in PlayerStates \cup {"(other)"},
     er \in PlayerErrors \cup {"(other)"},
     r \in {RateOne, Rat(1, 2), Rat(2, 1), Rat(-1, 2), Rat(1, 3), Rat(1, 8)}}

(* Every tick up to MaxSeconds, and longer ones around 25 and 100 hours; a
   tick that is not a whole number of seconds is cut down to one. *)
TimeInputs ==
    {[phase |-> "input", fn |-> "time", ticks |-> Tick(sec, usec)] :
     sec \in (0..MaxSeconds) \cup
             {89999, 90000, 359999, 360000, 2147483647},
     usec \in {0, 999999}}

(* Every non-zero n over d > 0 within the bounds; lowest terms are asked
   for where the inputs are drawn. *)
FracInputs ==
    {[phase |-> "input", fn |-> "frac", n |-> n, d |-> d] :
     n \in {k \in -MaxNum..MaxNum : k # 0},
     d \in 1..MaxDen}

(* A parameter map with one entry, the empty one, and a player on which   *)
(* no call has been made yet.                                              *)
OneParam(name, value) == [k \in {name} |-> value]

NoParams == [k \in {} |-> <<>>]

Fresh(pl) == [pl |-> pl, calls |-> <<>>]

InitConv ==
    /\ player \in PlayerInits
    /\ request = Idle
    /\ served = 0
    /\ pmap = NoPmap
    /\ event = NoEvent
    /\ upnp = NoCallback
    /\ conv \in TimeInputs \cup
                {c \in FracInputs : Gcd(Abs(c.n), c.d) = 1} \cup
                FracTexts \cup VolumeInputs \cup LevelInputs \cup
                MuteInputs \cup TransportInputs
    /\ conv.fn \in {"time", "frac"} => player.state = "STOPPED"
    /\ wrapper = NoWrapper
    /\ intf = NoIntf

(* time_to_string, then the two sscanf calls and the range test of Seek. *)
TimeRoundTrip ==
    /\ conv.phase = "input" /\ conv.fn = "time"
    /\ LET text == time_to_string(conv.ticks)
           parsed == ScanTarget(text)
       IN  conv' = [phase |-> "done", fn |-> "time", ticks |-> conv.ticks,
                    text |-> text, parsed |-> parsed,
                    in_range |-> ~(AtLeast60(parsed.m) \/
                                   AtLeast60(parsed.s))]
    /\ UNCHANGED <<player, request, served, pmap, event, upnp, wrapper, intf>>

(* float_to_frac of the rate n/d. *)
FloatToFrac ==
    /\ conv.phase = "input" /\ conv.fn = "frac"
    /\ conv' = [phase |-> "done", fn |-> "frac", n |-> conv.n, d |-> conv.d,
                text |-> float_to_frac(Rat(conv.n, conv.d))]
    /\ UNCHANGED <<player, request, served, pmap, event, upnp, wrapper, intf>>

(* frac_to_float of a Speed text, and handle_AVT_Play given that Speed. *)
FracToFloat ==
    /\ conv.phase = "input" /\ conv.fn = "parse"
    /\ \E r \in handle_AVT_Play(OneParam("Speed", conv.text), Fresh(player)) :
          /\ conv' = [phase |-> "done", fn |-> "parse", text |-> conv.text,
                       rate |-> frac_to_float(conv.text),
                       ok |-> r.ok, thrown |-> r.thrown, calls |-> r.p.calls]
          /\ player' = r.p.pl
    /\ UNCHANGED <<request, served, pmap, event, upnp, wrapper, intf>>

(* handle_RC_SetVolume with DesiredVolume v, then handle_RC_GetVolume. *)
VolumeRoundTrip ==
    /\ conv.phase = "input" /\ conv.fn = "volume"
    /\ \E set \in handle_RC_SetVolume(OneParam("DesiredVolume",
                                                 to_string_nat(conv.v)),
                                        Fresh(player)) :
       \E get \in handle_RC_GetVolume(NoParams, set.p) :
          /\ conv' = [phase |-> "done", fn |-> "volume", v |-> conv.v,
                       set_ok |-> set.ok, get_ok |-> get.ok,
                       volume |-> set.p.pl.volume, out |-> get.out,
                       calls |-> get.p.calls]
          /\ player' = get.p.pl
    /\ UNCHANGED <<request, served, pmap, event, upnp, wrapper, intf>>

(* handle_RC_GetVolume on a player with the drawn volume. *)
GetVolume ==
    /\ conv.phase = "input" /\ conv.fn = "level"
    /\ LET pl == [player EXCEPT !.volume = conv.volume]
       IN  \E get \in handle_RC_GetVolume(NoParams, Fresh(pl)) :
              /\ conv' = [phase |-> "done", fn |-> "level",
                           volume |-> conv.volume, get_ok |-> get.ok,
                           out |-> get.out, calls |-> get.p.calls]
              /\ player' = get.p.pl
    /\ UNCHANGED <<request, served, pmap, event, upnp, wrapper, intf>>

(* handle_RC_SetMute with the drawn DesiredMute, then handle_RC_GetMute. *)
MuteRoundTrip ==
    /\ conv.phase = "input" /\ conv.fn = "mute"
    /\ \E set \in handle_RC_SetMute(IF conv.present
                                      THEN OneParam("DesiredMute", conv.text)
                                      ELSE NoParams, Fresh(player)) :
       \E get \in handle_RC_GetMute(NoParams, set.p) :
          /\ conv' = [phase |-> "done", fn |-> "mute", text |-> conv.text,
                       present |-> conv.present,
                       before |-> player.mute, set_ok |-> set.ok,
                       get_ok |-> get.ok, mute |-> set.p.pl.mute,
                       out |-> get.out, calls |-> get.p.calls]
          /\ player' = get.p.pl
    /\ UNCHANGED <<request, served, pmap, event, upnp, wrapper, intf>>

(* handle_AVT_GetTransportInfo on a player in the drawn state. *)
TransportInfo ==
    /\ conv.phase = "input" /\ conv.fn = "transport"
    /\ LET pl == [player EXCEPT !.state = conv.state, !.error = conv.error,
                                !.rate = conv.rate]
       IN  \E r \in handle_AVT_GetTransportInfo(NoParams, Fresh(pl)) :
              /\ conv' = [phase |-> "done", fn |-> "transport",
                           state |-> conv.state, error |-> conv.error,
                           rate |-> conv.rate, ok |-> r.ok,
                           thrown |-> r.thrown, out |-> r.out,
                           calls |-> r.p.calls]
              /\ player' = r.p.pl
    /\ UNCHANGED <<request, served, pmap, event, upnp, wrapper, intf>>

NextConv ==
    \/ TimeRoundTrip
    \/ FloatToFrac
    \/ FracToFloat
    \/ VolumeRoundTrip
    \/ GetVolume
    \/ MuteRoundTrip
    \/ TransportInfo

SpecConv == InitConv /\ [][NextConv]_vars

(***************************************************************************)
(* UpnpInstanceWrapper: the shared instance, its listeners and s_lock,     *)
(* used by interface threads (OpenControl, CloseControl) and by the        *)
(* thread on which libupnp delivers events.  A thread that called an       *)
(* operation holds s_lock from vlc_mutex_lock to the operation's own       *)
(* action, which does the body and unlocks.                                *)
(*   s_lock     the thread holding the mutex (NoThread when free)          *)
(*   op         per thread, the operation it is in ("idle" for none)       *)
(*   refs       per interface thread, the references it got and holds      *)
(*   started    per interface thread, its successful startMediaRenderer    *)
(*   iter       the iterator of Callback, handling the listener whose      *)
(*              onEvent is running                                         *)
(*   created    the instances get has made the singleton so far, the last  *)
(*              of them being the one s_instance points to; deleted, the   *)
(*              instances release has deleted; inst, per interface thread, *)
(*              the instance its last get returned (0 for NULL)            *)
(*   last       the last startMediaRenderer or stopMediaRenderer: what it  *)
(*              returned, the count it found, and whether it registered or *)
(*              unregistered the root device                               *)
(***************************************************************************)
MaxRefs == 2

MaxInstances == 2

NoCall == [op |-> "none", ok |-> TRUE, before |-> 0, device |-> "kept"]

Intfs == {"intf1", "intf2"}

UpnpThread == "upnp"

Threads == Intfs \cup {UpnpThread}

NoThread == "none"

NoListener == "none"

SetupOps ==
    {"get", "release", "addListener", "removeListener", "startMediaRenderer",
     "stopMediaRenderer"}

InitWrapper ==
    /\ player \in {pl \in PlayerInits : pl.state = "STOPPED"}
    /\ request = Idle
    /\ served = 0
    /\ pmap = NoPmap
    /\ event = NoEvent
    /\ upnp = NoCallback
    /\ conv = NoConv
    /\ wrapper = [s_lock |-> NoThread, s_instance |-> FALSE, m_refcount |-> 0,
                  m_mediarenderer_refcount |-> 0, m_device_handle |-> -1,
                  s_listeners |-> <<>>, op |-> [t \in Threads |-> "idle"],
                  refs |-> [t \in Intfs |-> 0],
                  started |-> [t \in Intfs |-> 0],
                  iter |-> 0, handling |-> NoListener,
                  created |-> 0, deleted |-> 0,
                  inst |-> [t \in Intfs |-> 0], last |-> NoCall]
    /\ intf = NoIntf

(* What the callers make sure of before an operation: an interface thread  *)
(* uses the instance it got, stops what it started; libupnp calls Callback *)
(* while the client registered by get is there.                            *)
CanCall(t, name) ==
    IF t = UpnpThread THEN name = "Callback" /\ wrapper.s_instance
    ELSE CASE name = "get" ->
                  /\ wrapper.refs[t] < MaxRefs
                  /\ wrapper.s_instance \/ wrapper.created < MaxInstances
           [] name = "startMediaRenderer" ->
                  wrapper.started[t] < wrapper.refs[t]
           [] name = "stopMediaRenderer" ->
                  wrapper.refs[t] > 0 /\ wrapper.started[t] > 0
           [] name = "Callback" -> FALSE
           [] OTHER -> wrapper.refs[t] > 0

(* vlc_mutex_locker lock( &s_lock ) at the head of every operation. *)
vlc_mutex_lock ==
    /\ wrapper.s_lock = NoThread
    /\ \E t \in Threads, name \in SetupOps \cup {"Callback"} :
          /\ wrapper.op[t] = "idle"
          /\ CanCall(t, name)
          /\ wrapper' = [wrapper EXCEPT
                            !.s_lock = t, !.op[t] = name,
                            !.iter = IF name = "Callback" THEN 1 ELSE @]
    /\ UNCHANGED <<player, request, served, pmap, event, upnp, conv, intf>>

(* The thread t in operation name, holding the lock. *)
In(t, name) == wrapper.s_lock = t /\ wrapper.op[t] = name

Unlocked(w, t) == [w EXCEPT !.s_lock = NoThread, !.op[t] = "idle"]

(* get: creates the instance when there is none (UpnpInit2 or a            *)
(* registration may fail: NULL is returned), then counts the reference.    *)
get ==
    /\ \E t \in Intfs :
          /\ In(t, "get")
          /\ \/ /\ ~wrapper.s_instance
                /\ wrapper' = Unlocked([wrapper EXCEPT !.inst[t] = 0], t)
             \/ LET made == IF wrapper.s_instance THEN wrapper.created
                            ELSE wrapper.created + 1
                IN  wrapper' = Unlocked(
                        [wrapper EXCEPT
                            !.s_instance = TRUE,
                            !.created = made,
                            !.m_refcount =
                                IF wrapper.s_instance THEN @ + 1 ELSE 1,
                            !.refs[t] = @ + 1,
                            !.inst[t] = made], t)
    /\ UNCHANGED <<player, request, served, pmap, event, upnp, conv, intf>>

(* release deleting the instance whenever it is called. *)
release_deletes_always ==
    /\ \E t \in Intfs :
          /\ In(t, "release")
          /\ wrapper' = Unlocked(
                 [wrapper EXCEPT
                     !.m_refcount = @ - 1, !.s_instance = FALSE,
                     !.deleted = @ + 1,
                     !.m_mediarenderer_refcount = 0,
                     !.m_device_handle = -1,
                     !.refs[t] = @ - 1,
                     !.started = [u \in Intfs |-> 0],
                     !.last = NoCall], t)
    /\ UNCHANGED <<player, request, served, pmap, event, upnp, conv, intf>>

(* release: the last reference deletes the instance, which unregisters the *)
(* client and the device and ends libupnp.                                 *)
release ==
    /\ \E t \in Intfs :
          /\ In(t, "release")
          /\ wrapper' = Unlocked(
                 IF wrapper.m_refcount - 1 = 0
                 THEN [wrapper EXCEPT
                          !.m_refcount = 0, !.s_instance = FALSE,
                          !.deleted = @ + 1,
                          !.m_mediarenderer_refcount = 0,
                          !.m_device_handle = -1,
                          !.refs[t] = @ - 1,
                          !.started = [u \in Intfs |-> 0],
                          !.last = NoCall]
                 ELSE [wrapper EXCEPT !.m_refcount = @ - 1,
                                      !.refs[t] = @ - 1], t)
    /\ UNCHANGED <<player, request, served, pmap, event, upnp, conv, intf>>

(* addListener: push_back unless std::find finds the listener. *)
addListener ==
    /\ \E t \in Intfs :
          /\ In(t, "addListener")
          /\ wrapper' = Unlocked(
                 IF \E i \in DOMAIN wrapper.s_listeners : wrapper.s_listeners[i] = t
                 THEN wrapper
                 ELSE [wrapper EXCEPT !.s_listeners = Append(@, t)], t)
    /\ UNCHANGED <<player, request, served, pmap, event, upnp, conv, intf>>

(* removeListener: erase the listener std::find finds. *)
removeListener ==
    /\ \E t \in Intfs :
          /\ In(t, "removeListener")
          /\ wrapper' = Unlocked(
                 [wrapper EXCEPT
                     !.s_listeners = SelectSeq(@, LAMBDA l : l # t)], t)
    /\ UNCHANGED <<player, request, served, pmap, event, upnp, conv, intf>>

(* What a call of startMediaRenderer or stopMediaRenderer did. *)
RendererCall(name, ok, device) ==
    [op |-> name, ok |-> ok, before |-> wrapper.m_mediarenderer_refcount,
     device |-> device]

(* startMediaRenderer counting the caller also when the registration of    *)
(* the root device failed.                                                 *)
startMediaRenderer_counts_failure ==
    /\ \E t \in Intfs :
          /\ In(t, "startMediaRenderer")
          /\ \/ /\ wrapper.m_mediarenderer_refcount = 0
                /\ wrapper' = Unlocked(
                       [wrapper EXCEPT
                           !.m_mediarenderer_refcount = @ + 1,
                           !.started[t] = @ + 1,
                           !.last = RendererCall("startMediaRenderer", FALSE,
                                           "kept")], t)
             \/ wrapper' = Unlocked(
                    [wrapper EXCEPT
                        !.m_device_handle = 1,
                        !.m_mediarenderer_refcount = @ + 1,
                        !.started[t] = @ + 1,
                        !.last = RendererCall("startMediaRenderer", TRUE,
                                        IF wrapper.m_mediarenderer_refcount = 0
                                        THEN "registered" ELSE "kept")], t)
    /\ UNCHANGED <<player, request, served, pmap, event, upnp, conv, intf>>

(* startMediaRenderer: the first one registers the root device (false is   *)
(* returned when that fails); then the count goes up.                      *)
startMediaRenderer ==
    /\ \E t \in Intfs :
          /\ In(t, "startMediaRenderer")
          /\ \/ /\ wrapper.m_mediarenderer_refcount = 0
                /\ wrapper' = Unlocked(
                       [wrapper EXCEPT
                           !.last = RendererCall("startMediaRenderer", FALSE,
                                           "kept")], t)
             \/ wrapper' = Unlocked(
                    [wrapper EXCEPT
                        !.m_device_handle =
                            IF wrapper.m_mediarenderer_refcount = 0
                            THEN 1 ELSE @,
                        !.m_mediarenderer_refcount = @ + 1,
                        !.started[t] = @ + 1,
                        !.last = RendererCall("startMediaRenderer", TRUE,
                                        IF wrapper.m_mediarenderer_refcount = 0
                                        THEN "registered" ELSE "kept")], t)
    /\ UNCHANGED <<player, request, served, pmap, event, upnp, conv, intf>>

(* stopMediaRenderer: the last one unregisters the root device (false is   *)
(* returned when that fails); then the count goes down.                    *)
stopMediaRenderer ==
    /\ \E t \in Intfs :
          /\ In(t, "stopMediaRenderer")
          /\ \/ /\ wrapper.m_mediarenderer_refcount = 1
                /\ wrapper' = Unlocked(
                       [wrapper EXCEPT
                           !.last = RendererCall("stopMediaRenderer", FALSE,
                                           "kept")], t)
             \/ wrapper' = Unlocked(
                    [wrapper EXCEPT
                        !.m_device_handle =
                            IF wrapper.m_mediarenderer_refcount = 1
                            THEN -1 ELSE @,
                        !.m_mediarenderer_refcount = @ - 1,
                        !.started[t] = @ - 1,
                        !.last = RendererCall("stopMediaRenderer", TRUE,
                                        IF wrapper.m_mediarenderer_refcount = 1
                                        THEN "unregistered" ELSE "kept")], t)
    /\ UNCHANGED <<player, request, served, pmap, event, upnp, conv, intf>>

(* Callback: onEvent( event_type, p_event, p_user_data ) is entered for    *)
(* the listener at the iterator.                                           *)
Callback_onEvent ==
    /\ In(UpnpThread, "Callback")
    /\ wrapper.handling = NoListener
    /\ wrapper.iter <= Len(wrapper.s_listeners)
    /\ wrapper' = [wrapper EXCEPT !.handling = wrapper.s_listeners[wrapper.iter]]
    /\ UNCHANGED <<player, request, served, pmap, event, upnp, conv, intf>>

(* The listener's onEvent returns and the iterator moves on. *)
Callback_next ==
    /\ In(UpnpThread, "Callback")
    /\ wrapper.handling # NoListener
    /\ wrapper' = [wrapper EXCEPT !.handling = NoListener, !.iter = @ + 1]
    /\ UNCHANGED <<player, request, served, pmap, event, upnp, conv, intf>>

(* Callback: return 0 after the last listener. *)
Callback_return ==
    /\ In(UpnpThread, "Callback")
    /\ wrapper.handling = NoListener
    /\ wrapper.iter > Len(wrapper.s_listeners)
    /\ wrapper' = Unlocked([wrapper EXCEPT !.iter = 0], UpnpThread)
    /\ UNCHANGED <<player, request, served, pmap, event, upnp, conv, intf>>

NextWrapper ==
    \/ vlc_mutex_lock
    \/ get
    \/ release
    \/ addListener
    \/ removeListener
    \/ startMediaRenderer
    \/ stopMediaRenderer
    \/ Callback_onEvent
    \/ Callback_next
    \/ Callback_return

SpecWrapper == InitWrapper /\ [][NextWrapper]_vars

(***************************************************************************)
(* OpenControl and CloseControl of one interface object, with the thread   *)
(* on which libupnp delivers events and a thread of the player that runs   *)
(* the player callbacks.  Each call into the wrapper is one step taken     *)
(* when s_lock is free; each vlc_playlist_Lock ... vlc_playlist_Unlock     *)
(* block is one step taken when the player lock is free.                   *)
(*   pc         where the interface thread is                              *)
(*   ret        what OpenControl returned or is returning                  *)
(*   closing    CloseControl has been entered                              *)
(*   p_sys      p_intf->p_sys: unset, set by OpenControl, freed            *)
(*   p_upnp, p_listener, p_player_listener, p_player_aout_listener         *)
(*              the members of intf_sys_t that are set                     *)
(*   listeners  the listeners of this object the player has                *)
(*   player_lock the thread holding the player lock                        *)
(*   upnp_pc    where the libupnp thread is in Callback                    *)
(*   cb         the player callback that is running                        *)
(*   edges      the pairs <<lock held, lock taken>> seen so far            *)
(*   read       the last dereference of p_intf->p_sys by a handler or a    *)
(*              callback: what it found                                    *)
(*   crashed    a dereference of an unset or freed p_sys ended the process *)
(*   others     the references other modules hold on the wrapper; they     *)
(*              have started the MediaRenderer                             *)
(***************************************************************************)
ControlThread == "intf"

PlayerThread == "player"

Handler == "EventHandler"

EventKinds == {"AVTransport", "RenderingControl", "subscription", "other"}

Holders == {0, 1}

NoRead ==
    [by |-> "none", p_sys |-> "set", p_upnp |-> TRUE, pc |-> "none",
     closing |-> FALSE]

InitControl ==
    /\ player \in {pl \in PlayerInits : pl.state = "STOPPED"}
    /\ request = Idle
    /\ served = 0
    /\ pmap = NoPmap
    /\ event = NoEvent
    /\ upnp = NoCallback
    /\ conv = NoConv
    /\ \E others \in Holders :
          /\ wrapper = [s_lock |-> NoThread, s_instance |-> others > 0,
                        m_refcount |-> others,
                        m_mediarenderer_refcount |-> others,
                        m_device_handle |-> IF others > 0 THEN 1 ELSE -1,
                        s_listeners |-> <<>>, iter |-> 0,
                        handling |-> NoListener, event |-> "none"]
          /\ intf = [pc |-> "get", ret |-> "none", closing |-> FALSE,
                     p_sys |-> "unset", p_upnp |-> FALSE,
                     p_listener |-> FALSE, p_player_listener |-> FALSE,
                     p_player_aout_listener |-> FALSE, listeners |-> {},
                     player_lock |-> NoThread, upnp_pc |-> "idle",
                     cb |-> "none", edges |-> {}, read |-> NoRead,
                     crashed |-> FALSE, others |-> others]

Running == ~intf.crashed

(* The locks the thread t holds. *)
Held(t) ==
    (IF wrapper.s_lock = t THEN {"s_lock"} ELSE {}) \cup
    (IF intf.player_lock = t THEN {"player"} ELSE {})

(* The thread t takes the lock: the pairs seen, with those it adds. *)
Ordered(t, lock) == intf.edges \cup {<<h, lock>> : h \in Held(t)}

(* return VLC_EGENERIC: the unique_ptr destroys the intf_sys_t. *)
Failure(i) == [i EXCEPT !.pc = "~p_player_aout_listener", !.ret = "VLC_EGENERIC"]

(* p_intf->p_sys-> in a handler or in emit_event. *)
Dereference(by) ==
    [by |-> by, p_sys |-> intf.p_sys, p_upnp |-> intf.p_upnp, pc |-> intf.pc,
     closing |-> intf.closing]

(* What a dereference can do: go on, or end the process when p_sys is not  *)
(* a pointer to a live intf_sys_t.                                         *)
Crashes == IF intf.p_sys = "set" THEN {FALSE} ELSE BOOLEAN

(* UpnpInstanceWrapper::get and the unique_ptr with the release deleter. *)
OpenControl_get ==
    /\ Running
    /\ intf.pc = "get"
    /\ wrapper.s_lock = NoThread
    /\ \/ /\ ~wrapper.s_instance
          /\ intf' = [Failure(intf) EXCEPT
                         !.edges = Ordered(ControlThread, "s_lock")]
          /\ UNCHANGED wrapper
       \/ /\ wrapper' = [wrapper EXCEPT !.s_instance = TRUE,
                                        !.m_refcount = @ + 1]
          /\ intf' = [intf EXCEPT !.pc = "make_shared", !.p_upnp = TRUE,
                                  !.edges = Ordered(ControlThread, "s_lock")]
    /\ UNCHANGED <<player, request, served, pmap, event, upnp, conv>>

(* std::make_shared<EventHandler>( p_intf ), or std::bad_alloc. *)
OpenControl_make_shared ==
    /\ Running
    /\ intf.pc = "make_shared"
    /\ \/ intf' = Failure(intf)
       \/ intf' = [intf EXCEPT !.pc = "addListener", !.p_listener = TRUE]
    /\ UNCHANGED <<player, request, served, pmap, event, upnp, conv, wrapper>>

(* p_sys->p_upnp->addListener( p_sys->p_listener ) *)
OpenControl_addListener ==
    /\ Running
    /\ intf.pc = "addListener"
    /\ wrapper.s_lock = NoThread
    /\ wrapper' = IF \E i \in DOMAIN wrapper.s_listeners :
                        wrapper.s_listeners[i] = Handler
                  THEN wrapper
                  ELSE [wrapper EXCEPT !.s_listeners = Append(@, Handler)]
    /\ intf' = [intf EXCEPT !.pc = "startMediaRenderer",
                            !.edges = Ordered(ControlThread, "s_lock")]
    /\ UNCHANGED <<player, request, served, pmap, event, upnp, conv>>

(* if( !p_sys->p_upnp->startMediaRenderer( p_this ) ) return VLC_EGENERIC *)
OpenControl_startMediaRenderer ==
    /\ Running
    /\ intf.pc = "startMediaRenderer"
    /\ wrapper.s_lock = NoThread
    /\ \/ /\ wrapper.m_mediarenderer_refcount = 0
          /\ intf' = [Failure(intf) EXCEPT
                         !.edges = Ordered(ControlThread, "s_lock")]
          /\ UNCHANGED wrapper
       \/ /\ wrapper' = [wrapper EXCEPT !.m_device_handle = 1,
                                        !.m_mediarenderer_refcount = @ + 1]
          /\ intf' = [intf EXCEPT !.pc = "vlc_player_AddListener",
                                  !.edges = Ordered(ControlThread, "s_lock")]
    /\ UNCHANGED <<player, request, served, pmap, event, upnp, conv>>

(* vlc_player_AddListener between vlc_playlist_Lock and _Unlock; NULL      *)
(* returns VLC_EGENERIC.                                                   *)
OpenControl_vlc_player_AddListener ==
    /\ Running
    /\ intf.pc = "vlc_player_AddListener"
    /\ intf.player_lock = NoThread
    /\ \/ intf' = [Failure(intf) EXCEPT
                      !.edges = Ordered(ControlThread, "player")]
       \/ intf' = [intf EXCEPT !.pc = "vlc_player_aout_AddListener",
                               !.p_player_listener = TRUE,
                               !.listeners = @ \cup {"player"},
                               !.edges = Ordered(ControlThread, "player")]
    /\ UNCHANGED <<player, request, served, pmap, event, upnp, conv, wrapper>>

(* vlc_player_aout_AddListener, in the same way. *)
OpenControl_vlc_player_aout_AddListener ==
    /\ Running
    /\ intf.pc = "vlc_player_aout_AddListener"
    /\ intf.player_lock = NoThread
    /\ \/ intf' = [Failure(intf) EXCEPT
                      !.edges = Ordered(ControlThread, "player")]
       \/ intf' = [intf EXCEPT !.pc = "store",
                               !.p_player_aout_listener = TRUE,
                               !.listeners = @ \cup {"aout"},
                               !.edges = Ordered(ControlThread, "player")]
    /\ UNCHANGED <<player, request, served, pmap, event, upnp, conv, wrapper>>

(* p_intf->p_sys = p_sys.release(); return VLC_SUCCESS *)
OpenControl_store ==
    /\ Running
    /\ intf.pc = "store"
    /\ intf' = [intf EXCEPT !.pc = "open", !.p_sys = "set",
                            !.ret = "VLC_SUCCESS"]
    /\ UNCHANGED <<player, request, served, pmap, event, upnp, conv, wrapper>>

(* CloseControl leaving the listener in s_listeners. *)
CloseControl_removeListener_skipped ==
    /\ Running
    /\ intf.pc = "open"
    /\ wrapper.s_lock = NoThread
    /\ intf' = [intf EXCEPT !.pc = "stopMediaRenderer", !.closing = TRUE,
                            !.edges = Ordered(ControlThread, "s_lock")]
    /\ UNCHANGED <<player, request, served, pmap, event, upnp, conv, wrapper>>

(* CloseControl: p_sys->p_upnp->removeListener( p_sys->p_listener ) *)
CloseControl_removeListener ==
    /\ Running
    /\ intf.pc = "open"
    /\ wrapper.s_lock = NoThread
    /\ wrapper' = [wrapper EXCEPT
                      !.s_listeners = SelectSeq(@, LAMBDA l : l # Handler)]
    /\ intf' = [intf EXCEPT !.pc = "stopMediaRenderer", !.closing = TRUE,
                            !.edges = Ordered(ControlThread, "s_lock")]
    /\ UNCHANGED <<player, request, served, pmap, event, upnp, conv>>

(* CloseControl: p_sys->p_upnp->stopMediaRenderer( p_this ), whose result  *)
(* is not looked at; then delete p_sys.                                    *)
CloseControl_stopMediaRenderer ==
    /\ Running
    /\ intf.pc = "stopMediaRenderer"
    /\ wrapper.s_lock = NoThread
    /\ \/ /\ wrapper.m_mediarenderer_refcount = 1
          /\ UNCHANGED wrapper
       \/ wrapper' = [wrapper EXCEPT
                         !.m_device_handle =
                             IF wrapper.m_mediarenderer_refcount = 1
                             THEN -1 ELSE @,
                         !.m_mediarenderer_refcount = @ - 1]
    /\ intf' = [intf EXCEPT !.pc = "~p_player_aout_listener",
                            !.edges = Ordered(ControlThread, "s_lock")]
    /\ UNCHANGED <<player, request, served, pmap, event, upnp, conv>>

(* ~intf_sys_t, last member first: the deleter of p_player_aout_listener   *)
(* removes the listener under the playlist lock.                           *)
delete_p_player_aout_listener ==
    /\ Running
    /\ intf.pc = "~p_player_aout_listener"
    /\ IF intf.p_player_aout_listener
       THEN /\ intf.player_lock = NoThread
            /\ intf' = [intf EXCEPT !.pc = "~p_player_listener",
                                    !.p_player_aout_listener = FALSE,
                                    !.listeners = @ \ {"aout"},
                                    !.edges = Ordered(ControlThread, "player")]
       ELSE intf' = [intf EXCEPT !.pc = "~p_player_listener"]
    /\ UNCHANGED <<player, request, served, pmap, event, upnp, conv, wrapper>>

(* The deleter of p_player_listener. *)
delete_p_player_listener ==
    /\ Running
    /\ intf.pc = "~p_player_listener"
    /\ IF intf.p_player_listener
       THEN /\ intf.player_lock = NoThread
            /\ intf' = [intf EXCEPT !.pc = "~p_upnp",
                                    !.p_player_listener = FALSE,
                                    !.listeners = @ \ {"player"},
                                    !.edges = Ordered(ControlThread, "player")]
       ELSE intf' = [intf EXCEPT !.pc = "~p_upnp"]
    /\ UNCHANGED <<player, request, served, pmap, event, upnp, conv, wrapper>>

(* p_listener is dropped; the deleter of p_upnp calls release(), which     *)
(* deletes the instance with the last reference; the intf_sys_t is freed.  *)
delete_p_upnp ==
    /\ Running
    /\ intf.pc = "~p_upnp"
    /\ intf.p_upnp => wrapper.s_lock = NoThread
    /\ wrapper' =
          IF ~intf.p_upnp THEN wrapper
          ELSE IF wrapper.m_refcount - 1 = 0
          THEN [wrapper EXCEPT !.m_refcount = 0, !.s_instance = FALSE,
                               !.m_mediarenderer_refcount = 0,
                               !.m_device_handle = -1]
          ELSE [wrapper EXCEPT !.m_refcount = @ - 1]
    /\ intf' = [intf EXCEPT
                   !.pc = IF intf.closing THEN "closed" ELSE "failed",
                   !.p_sys = IF intf.closing THEN "freed" ELSE @,
                   !.p_listener = FALSE, !.p_upnp = FALSE,
                   !.edges = IF intf.p_upnp
                             THEN Ordered(ControlThread, "s_lock") ELSE @]
    /\ UNCHANGED <<player, request, served, pmap, event, upnp, conv>>

(* libupnp calls UpnpInstanceWrapper::Callback, which takes s_lock; action *)
(* and subscription requests come for a registered root device.            *)
Callback ==
    /\ Running
    /\ intf.upnp_pc = "idle"
    /\ wrapper.s_instance
    /\ wrapper.s_lock = NoThread
    /\ \E e \in EventKinds :
          /\ e # "other" => wrapper.m_device_handle # -1
          /\ wrapper' = [wrapper EXCEPT !.s_lock = UpnpThread, !.iter = 1,
                                        !.event = e]
    /\ intf' = [intf EXCEPT !.upnp_pc = "iterate",
                            !.edges = Ordered(UpnpThread, "s_lock")]
    /\ UNCHANGED <<player, request, served, pmap, event, upnp, conv>>

(* EventHandler::onEvent of the listener at the iterator: an action or a   *)
(* subscription request reads p_intf->p_sys; an AVTransport handler goes   *)
(* on to vlc_player_Lock, the others return.                               *)
Callback_dispatch ==
    /\ Running
    /\ intf.upnp_pc = "iterate"
    /\ wrapper.iter <= Len(wrapper.s_listeners)
    /\ IF wrapper.event = "other"
       THEN /\ wrapper' = [wrapper EXCEPT !.iter = @ + 1]
            /\ UNCHANGED intf
       ELSE \E crash \in Crashes :
               LET locks == wrapper.event = "AVTransport" /\ intf.p_sys = "set"
               IN  /\ intf' = [intf EXCEPT
                                  !.read = Dereference(wrapper.event),
                                  !.crashed = crash,
                                  !.upnp_pc = IF locks THEN "vlc_player_Lock"
                                              ELSE @]
                   /\ wrapper' = [wrapper EXCEPT
                                     !.handling = IF locks
                                                  THEN wrapper.s_listeners[wrapper.iter]
                                                  ELSE @,
                                     !.iter = IF locks THEN @ ELSE @ + 1]
    /\ UNCHANGED <<player, request, served, pmap, event, upnp, conv>>

(* vlc_player_Lock( p_intf->p_sys->player ) in an AVTransport handler. *)
handler_vlc_player_Lock ==
    /\ Running
    /\ intf.upnp_pc = "vlc_player_Lock"
    /\ intf.player_lock = NoThread
    /\ intf' = [intf EXCEPT !.player_lock = UpnpThread,
                            !.upnp_pc = "vlc_player_Unlock",
                            !.edges = Ordered(UpnpThread, "player")]
    /\ UNCHANGED <<player, request, served, pmap, event, upnp, conv, wrapper>>

(* vlc_player_Unlock, and the handler and onEvent return. *)
handler_vlc_player_Unlock ==
    /\ Running
    /\ intf.upnp_pc = "vlc_player_Unlock"
    /\ intf' = [intf EXCEPT !.player_lock = NoThread, !.upnp_pc = "iterate"]
    /\ wrapper' = [wrapper EXCEPT !.handling = NoListener, !.iter = @ + 1]
    /\ UNCHANGED <<player, request, served, pmap, event, upnp, conv>>

(* Callback returns after the last listener. *)
Callback_done ==
    /\ Running
    /\ intf.upnp_pc = "iterate"
    /\ wrapper.iter > Len(wrapper.s_listeners)
    /\ wrapper' = [wrapper EXCEPT !.s_lock = NoThread, !.iter = 0,
                                  !.event = "none"]
    /\ intf' = [intf EXCEPT !.upnp_pc = "idle"]
    /\ UNCHANGED <<player, request, served, pmap, event, upnp, conv>>

(* The player, holding its lock, calls a callback of a listener it has. *)
player_callback ==
    /\ Running
    /\ intf.cb = "none"
    /\ intf.player_lock = NoThread
    /\ \E k \in intf.listeners :
          intf' = [intf EXCEPT !.player_lock = PlayerThread, !.cb = k,
                               !.edges = Ordered(PlayerThread, "player")]
    /\ UNCHANGED <<player, request, served, pmap, event, upnp, conv, wrapper>>

(* emit_event taking s_lock around its use of the wrapper. *)
player_callback_emit_event_locked ==
    /\ Running
    /\ intf.cb # "none"
    /\ wrapper.s_lock = NoThread
    /\ \E crash \in Crashes :
          intf' = [intf EXCEPT !.read = Dereference(intf.cb),
                               !.crashed = crash,
                               !.player_lock = NoThread, !.cb = "none",
                               !.edges = Ordered(PlayerThread, "s_lock")]
    /\ UNCHANGED <<player, request, served, pmap, event, upnp, conv, wrapper>>

(* The callback calls emit_event, which reads p_intf->p_sys->p_upnp for    *)
(* UpnpNotify; the callback returns and the player unlocks.                *)
player_callback_emit_event ==
    /\ Running
    /\ intf.cb # "none"
    /\ \E crash \in Crashes :
          intf' = [intf EXCEPT !.read = Dereference(intf.cb),
                               !.crashed = crash,
                               !.player_lock = NoThread, !.cb = "none"]
    /\ UNCHANGED <<player, request, served, pmap, event, upnp, conv, wrapper>>

NextControl ==
    \/ OpenControl_get
    \/ OpenControl_make_shared
    \/ OpenControl_addListener
    \/ OpenControl_startMediaRenderer
    \/ OpenControl_vlc_player_AddListener
    \/ OpenControl_vlc_player_aout_AddListener
    \/ OpenControl_store
    \/ CloseControl_removeListener
    \/ CloseControl_stopMediaRenderer
    \/ delete_p_player_aout_listener
    \/ delete_p_player_listener
    \/ delete_p_upnp
    \/ Callback
    \/ Callback_dispatch
    \/ handler_vlc_player_Lock
    \/ handler_vlc_player_Unlock
    \/ Callback_done
    \/ player_callback
    \/ player_callback_emit_event

SpecControl == InitControl /\ [][NextControl]_vars

(***************************************************************************)
(* Properties of the dispatcher (specification Spec).                      *)
(***************************************************************************)
Served == request.phase # "idle"

Returned == request.phase = "returned"

(* The output parameters of the handler invocation that succeeded last. *)
LastOut == request.invoked[Len(request.invoked)].out

Range(seq) == {seq[i] : i \in DOMAIN seq}

(* C1: every action request ends in exactly one terminal outcome recorded on
   the request: the dispatcher returns, has set the error code exactly once,
   and leaves either success with a response document (with or without
   output parameters) or a failure code without a document. *)
C1_ExactlyOneOutcome ==
    Served =>
        /\ request.phase = "returned"
        /\ request.ErrCodeSets = 1
        /\ \/ /\ request.ErrCode = UPNP_E_SUCCESS
              /\ request.ActionResult # <<>>
           \/ /\ request.ErrCode # UPNP_E_SUCCESS
              /\ request.ActionResult = <<>>

(* C2: a request for which no handler returned success (no table entry
   matches, or the matching handler did not succeed) is answered with
   UPNP_E_INTERNAL_ERROR and no response document. *)
C2_GenericFailure ==
    (Served /\ \A k \in DOMAIN request.invoked : ~request.invoked[k].ok) =>
        /\ request.phase = "returned"
        /\ request.ret = UPNP_E_INTERNAL_ERROR
        /\ request.ErrCode = UPNP_E_INTERNAL_ERROR
        /\ request.ActionResult = <<>>

(* C3: when an append of an output parameter fails, it is the last append of
   the request, the request's result document is cleared, and the code of
   the failed append is both the request's error code and the value
   returned. *)
C3_AppendFailureDiscards ==
    Returned =>
        \A i \in DOMAIN request.appended :
            request.appended[i].r # UPNP_E_SUCCESS =>
                /\ i = Len(request.appended)
                /\ request.ActionResult = <<>>
                /\ request.ErrCode = request.appended[i].r
                /\ request.ret = request.appended[i].r

(* C3 witness: an append failed after an earlier one succeeded and with
   output parameters still to append. *)
C3_Witness ==
    /\ Returned
    /\ Len(request.appended) >= 2
    /\ request.appended[1].r = UPNP_E_SUCCESS
    /\ request.appended[Len(request.appended)].r \in AppendErrors
    /\ Len(request.appended) < Len(LastOut)

(* C4: at the return of a request, it carries a response document exactly
   when its error code is success, and a carried document holds every output
   pair of the handler, once each. *)
C4_DocumentIffSuccess ==
    Returned =>
        /\ (request.ActionResult # <<>>) <=> (request.ErrCode = UPNP_E_SUCCESS)
        /\ request.ActionResult # <<>> =>
              /\ Range(request.ActionResult[1].args) = Range(LastOut)
              /\ Len(request.ActionResult[1].args) = Len(LastOut)

(* The inputs the handlers are to reject: a required parameter missing, a
   Seek Target that is out of range or unparsable, a DesiredVolume without
   a digit. *)
MalformedFor(action, params) ==
    CASE action = "SetAVTransportURI" -> ~Has(params, "CurrentURI")
      [] action = "Play" -> ~Has(params, "Speed")
      [] action = "Seek" ->
             \/ ~Has(params, "Unit")
             \/ ~Has(params, "Target")
             \/ params["Target"] \in {V_bad_minutes, V_x}
      [] action = "SetVolume" ->
             \/ ~Has(params, "DesiredVolume")
             \/ \A i \in DOMAIN params["DesiredVolume"] :
                   ~IsDigit(params["DesiredVolume"][i])
      [] action = "SetMute" -> ~Has(params, "DesiredMute")
      [] OTHER -> FALSE

MalformedRequest ==
    /\ Served
    /\ \E i \in DOMAIN actions :
          actions[i].service = request.service /\
          actions[i].action = request.action
    /\ request.body # <<>>
    /\ request.body[1] # <<>>
    /\ \A e \in DOMAIN request.body[1] :
          MalformedFor(request.action, build_param_map(request.body[1][e]))

(* C5: a request whose every element is malformed makes each handler
   invocation return failure, is answered with the generic error code, and
   lets no exception leave onActionRequest. *)
C5_MalformedInputFails ==
    MalformedRequest =>
        /\ request.phase = "returned"
        /\ request.thrown = NoException
        /\ \A k \in DOMAIN request.invoked : ~request.invoked[k].ok
        /\ request.ErrCode = UPNP_E_INTERNAL_ERROR

(* C6: no two entries of the action table have the same (service, action)
   pair; hence no element of a request has a handler invoked on it twice. *)
C6_NoDuplicateEntries ==
    /\ \A i, j \in DOMAIN actions :
          (actions[i].service = actions[j].service /\
           actions[i].action = actions[j].action) => i = j
    /\ Served =>
          \A i, j \in DOMAIN request.invoked :
              request.invoked[i].element = request.invoked[j].element => i = j

(* C6 witness: a handler failed on both elements of a request, so the scan
   of the table went on past the matching entry twice. *)
C6_Witness ==
    /\ Returned
    /\ Len(request.invoked) = 2
    /\ ~request.invoked[1].ok /\ ~request.invoked[2].ok
    /\ request.invoked[1].element # request.invoked[2].element

(* The first table entry equal to the request on both fields, 0 if none. *)
FirstMatch(service, action) ==
    LET M == {i \in DOMAIN actions :
                  actions[i].service = service /\ actions[i].action = action}
    IN  IF M = {} THEN 0 ELSE CHOOSE i \in M : \A j \in M : i <= j

(* C7: every handler invoked for a request is the handler of the first
   table entry whose service and action both equal the request's; with no
   such entry no handler is invoked, and with one the handler is invoked
   as soon as the body has an element. *)
C7_FirstExactMatch ==
    Served =>
        LET m == FirstMatch(request.service, request.action)
        IN  /\ \A k \in DOMAIN request.invoked : request.invoked[k].entry = m
            /\ m = 0 => request.invoked = <<>>
            /\ (m # 0 /\ request.body # <<>> /\ request.body[1] # <<>>) =>
                  request.invoked # <<>>

(* C7 witness: Play, an AVTransport action, requested of RenderingControl
   with two elements that AVTransport's Play would accept. *)
C7_Witness ==
    /\ Returned
    /\ request.service = SRV_RC /\ request.action = "Play"
    /\ request.body # <<>>
    /\ Len(request.body[1]) = 2
    /\ \A e \in DOMAIN request.body[1] :
          Has(build_param_map(request.body[1][e]), "Speed")
    /\ request.invoked = <<>>
    /\ request.ret = UPNP_E_INTERNAL_ERROR

(***************************************************************************)
(* Properties of build_param_map (specification SpecParams).               *)
(***************************************************************************)
(* The i-th child has a name, a text node and a value for it. *)
Valued(children, i) ==
    /\ children[i].name # <<>>
    /\ children[i].first # <<>>
    /\ children[i].first[1] # <<>>

(* C8: the map holds exactly the names of the children that have a name and
   a value, each mapped to the value of the last such child of that name;
   the other children add nothing and remove nothing. *)
C8_LastValueWins ==
    pmap.phase = "done" =>
        LET c == pmap.children
            V == {i \in DOMAIN c : Valued(c, i)}
        IN  /\ DOMAIN pmap.params = {c[i].name[1] : i \in V}
            /\ \A i \in V :
                  (\A j \in V : c[j].name = c[i].name => j <= i) =>
                      pmap.params[c[i].name[1]] = c[i].first[1][1]

(* C8 witness: two children of one name with different values, followed by
   a child of that name without a text node; the map has the second value. *)
C8_Witness ==
    /\ pmap.phase = "done"
    /\ Len(pmap.children) = 3
    /\ Valued(pmap.children, 1) /\ Valued(pmap.children, 2)
    /\ pmap.children[1].name = pmap.children[2].name
    /\ pmap.children[3].name = pmap.children[2].name
    /\ pmap.children[1].first # pmap.children[2].first
    /\ pmap.children[3].first = <<>>
    /\ pmap.params[pmap.children[2].name[1]] = pmap.children[2].first[1][1]

(***************************************************************************)
(* Properties of build_event_xml (specification SpecEvent).                *)
(***************************************************************************)
EscapedChar(c) ==
    CASE c = "&" -> <<"&", "a", "m", "p", ";">>
      [] c = "\"" -> <<"&", "q", "u", "o", "t", ";">>
      [] c = "'" -> <<"&", "a", "p", "o", "s", ";">>
      [] c = "<" -> <<"&", "l", "t", ";">>
      [] c = ">" -> <<"&", "g", "t", ";">>
      [] OTHER -> <<c>>

(* Every character of str escaped exactly once. *)
RECURSIVE EscapedOnce(_)
EscapedOnce(str) ==
    IF str = <<>> THEN <<>>
    ELSE EscapedChar(Head(str)) \o EscapedOnce(Tail(str))

Contains(str, sub) ==
    \E i \in 1..(Len(str) - Len(sub) + 1) :
        SubSeq(str, i, i + Len(sub) - 1) = sub

(* The event body of Event / InstanceID val="0", as carried in LastChange,
   around the text inner written inside InstanceID. *)
BodyAround(inner) ==
    <<"&", "l", "t", ";", "Event", "&", "g", "t", ";",
      "&", "l", "t", ";", "InstanceID", " ", "val", "=",
      "&", "q", "u", "o", "t", ";", "0", "&", "q", "u", "o", "t", ";",
      "&", "g", "t", ";">> \o inner \o
    <<"&", "l", "t", ";", "/", "InstanceID", "&", "g", "t", ";",
      "&", "l", "t", ";", "/", "Event", "&", "g", "t", ";">>

(* The element of one argument, as carried in LastChange, with the text
   shown written as its val attribute. *)
ArgAround(name, shown) ==
    <<"&", "l", "t", ";", name, " ", "val", "=",
      "&", "q", "u", "o", "t", ";">> \o shown \o
    <<"&", "q", "u", "o", "t", ";", "&", "g", "t", ";",
      "&", "l", "t", ";", "/", name, "&", "g", "t", ";">>

(* C9: build_event_xml with zero pairs returns a result unless one of its
   library calls fails, and the result is the non-empty body of Event
   holding one InstanceID with val="0" and no argument element. *)
C9_EmptyEvent ==
    (event.phase = "done" /\ event.count = 0) =>
        /\ (event.result # <<>>) <=> (event.fail = 0)
        /\ event.result # <<>> =>
              /\ event.result[1] = BodyAround(<<>>)
              /\ Len(event.result[1]) > 0

(* C9 witness: zero pairs encoded with no library call failing. *)
C9_Witness ==
    /\ event.phase = "done"
    /\ event.count = 0
    /\ event.fail = 0
    /\ event.result # <<>>

(* C10 as claimed: in the body for one pair, each of & " ' < > of the value
   is escaped exactly once, and the body never contains &amp;amp;. *)
C10_ValueEscapedOnce ==
    (event.phase = "done" /\ event.count = 1 /\ event.result # <<>>) =>
        /\ event.result[1] =
              BodyAround(ArgAround(event.keys[1],
                                   EscapedOnce(event.values[1])))
        /\ event.values[1] = <<"a", "&", "<", "b", "\"">> =>
              ~Contains(event.result[1],
                        <<"&", "a", "m", "p", ";", "a", "m", "p", ";">>)

(* C10 as amended: the body is the serialised document with each of its
   & " ' < > escaped exactly once by the final escaping; the value, which
   the serialiser had already written escaped inside the val attribute, is
   therefore escaped exactly twice (& shows as &amp;amp;, < as &amp;lt;). *)
C10_ValueEscapedTwice ==
    (event.phase = "done" /\ event.count = 1 /\ event.result # <<>>) =>
        event.result[1] =
            BodyAround(ArgAround(event.keys[1],
                                 EscapedOnce(EscapedOnce(event.values[1]))))

(* C10 witness: the body built for the value a&<b". *)
C10_Witness ==
    /\ event.phase = "done"
    /\ event.count = 1
    /\ event.values[1] = <<"a", "&", "<", "b", "\"">>
    /\ event.result # <<>>
    /\ Contains(event.result[1],
                <<"a", "&", "a", "m", "p", ";", "a", "m", "p", ";",
                  "&", "a", "m", "p", ";", "l", "t", ";", "b",
                  "&", "a", "m", "p", ";", "q", "u", "o", "t", ";">>)

(***************************************************************************)
(* Properties of the publisher and the router (specification SpecRouter).  *)
(***************************************************************************)
PlayerCallbackDone == upnp.phase = "done" /\ upnp.kind # "onEvent"

EventDone(types) ==
    upnp.phase = "done" /\ upnp.kind = "onEvent" /\ upnp.event_type \in types

(* The call is a notification of the single variable LastChange with the
   given body, for the device and the given service. *)
NotifiesLastChange(call, sid, event_xml) ==
    /\ call.api = "UpnpNotify"
    /\ call.udn = DeviceUDN
    /\ call.service = sid
    /\ call.count = 1
    /\ call.var_keys = <<"LastChange">>
    /\ call.var_values = <<event_xml>>

(* C11: every player callback makes exactly one emit_event call, for the
   service and variable of its kind: state -> AVTransport TransportState,
   rate -> AVTransport TransportPlaySpeed, volume -> RenderingControl Volume
   with the whole percentage nearest to the clipped volume, mute ->
   RenderingControl Mute with "0" or "1"; and when the body was built that
   call makes exactly one UpnpNotify call carrying it as the one variable
   LastChange. *)
C11_OnePublishPerCallback ==
    PlayerCallbackDone =>
        /\ Len(upnp.emits) = 1
        /\ LET e == upnp.emits[1]
           IN  /\ CASE upnp.kind = "player_state_changed" ->
                         /\ e.sid = SRV_AVT /\ e.key = "TransportState"
                         /\ e.value \in {S_STOPPED, S_PLAYING,
                                         S_PAUSED_PLAYBACK, S_TRANSITIONING}
                     [] upnp.kind = "player_rate_changed" ->
                         e.sid = SRV_AVT /\ e.key = "TransportPlaySpeed"
                     [] upnp.kind = "player_aout_volume_changed" ->
                         /\ e.sid = SRV_RC /\ e.key = "Volume"
                         /\ \E k \in 0..100 :
                               /\ e.value = to_string(k)
                               /\ Abs(10 * k - VLC_CLIP(upnp.arg, 0, 1000)) <= 5
                     [] upnp.kind = "player_aout_mute_changed" ->
                         /\ e.sid = SRV_RC /\ e.key = "Mute"
                         /\ e.value = (IF upnp.arg THEN <<"1">> ELSE <<"0">>)
               /\ e.event_xml # <<>> =>
                     /\ Len(upnp.calls) = 1
                     /\ NotifiesLastChange(upnp.calls[1], e.sid, e.event_xml)

(* C11 witness: the volume 0.505 reported, published as "51" and notified
   once. *)
C11_Witness ==
    /\ PlayerCallbackDone
    /\ upnp.kind = "player_aout_volume_changed"
    /\ upnp.arg = 505
    /\ upnp.emits[1].value = <<"5", "1">>
    /\ Len(upnp.calls) = 1
    /\ upnp.calls[1].var_values[1] # <<>>

(* C12: when build_event_xml fails inside emit_event, the callback makes no
   call to the transport and returns. *)
C12_BuildFailureSkipsNotify ==
    (PlayerCallbackDone /\ upnp.emits[1].event_xml = <<>>) =>
        /\ upnp.calls = <<>>
        /\ upnp.returned

(* C12 witness: a state change whose event body could not be built. *)
C12_Witness ==
    /\ PlayerCallbackDone
    /\ upnp.kind = "player_state_changed"
    /\ upnp.emits[1].event_xml = <<>>
    /\ upnp.calls = <<>>

(* C13: a player callback calls UpnpNotify at most once and a subscription
   request calls UpnpAcceptSubscription exactly once, whatever status the
   transport returns; the callback returns, and onSubscriptionRequest
   returns that status. *)
C13_NoRetry ==
    /\ PlayerCallbackDone =>
          /\ Len(upnp.calls) <= 1
          /\ \A i \in DOMAIN upnp.calls : upnp.calls[i].api = "UpnpNotify"
          /\ upnp.returned
    /\ EventDone({"UPNP_EVENT_SUBSCRIPTION_REQUEST"}) =>
          /\ Len(upnp.calls) = 1
          /\ upnp.calls[1].api = "UpnpAcceptSubscription"
          /\ upnp.returned
          /\ upnp.ret = upnp.calls[1].ret

(* C13 witness: a subscription whose acceptance the transport refused. *)
C13_Witness ==
    /\ EventDone({"UPNP_EVENT_SUBSCRIPTION_REQUEST"})
    /\ Len(upnp.calls) = 1
    /\ upnp.calls[1].ret # UPNP_E_SUCCESS
    /\ upnp.ret # UPNP_E_SUCCESS

(* The one call of a subscription request carries its three identifiers. *)
AcceptsSameIds ==
    /\ Len(upnp.calls) = 1
    /\ upnp.calls[1].api = "UpnpAcceptSubscription"
    /\ upnp.calls[1].service = upnp.p_event.service_id
    /\ upnp.calls[1].udn = upnp.p_event.udn
    /\ upnp.calls[1].sid = upnp.p_event.sid
    /\ upnp.calls[1].var_keys = <<"LastChange">>

(* C14 as claimed: every subscription request is answered by one
   UpnpAcceptSubscription call with the request's three identifiers and one
   variable, LastChange, whose value is the initial event body. *)
C14_AcceptSuppliesBody ==
    EventDone({"UPNP_EVENT_SUBSCRIPTION_REQUEST"}) =>
        /\ AcceptsSameIds
        /\ upnp.calls[1].count = 1
        /\ upnp.calls[1].var_values = << <<BodyAround(<<>>)>> >>

(* C14 as amended: the one call carries the three identifiers; it announces
   one variable, LastChange with the initial event body, when the body was
   built, and no variable (a null value) when it was not. *)
C14_AcceptSuppliesBodyIfBuilt ==
    EventDone({"UPNP_EVENT_SUBSCRIPTION_REQUEST"}) =>
        /\ AcceptsSameIds
        /\ \/ /\ upnp.calls[1].count = 1
              /\ upnp.calls[1].var_values = << <<BodyAround(<<>>)>> >>
           \/ /\ upnp.calls[1].count = 0
              /\ upnp.calls[1].var_values = << <<>> >>

(* C14 witness: a subscription accepted although its body was not built. *)
C14_Witness ==
    /\ EventDone({"UPNP_EVENT_SUBSCRIPTION_REQUEST"})
    /\ AcceptsSameIds
    /\ upnp.calls[1].count = 0
    /\ upnp.p_event.udn # DeviceUDN

(* C15: an event that is neither an action request nor a subscription
   request makes onEvent return 0 having called no member function, no
   player function and no transport function, with the event object and the
   player as they were. *)
C15_OtherEventsNoOp ==
    EventDone(Upnp_EventTypes \ {"UPNP_CONTROL_ACTION_REQUEST",
                                 "UPNP_EVENT_SUBSCRIPTION_REQUEST"}) =>
        /\ upnp.returned
        /\ upnp.ret = 0
        /\ upnp.handler = "none"
        /\ upnp.player_calls = <<>>
        /\ upnp.calls = <<>>
        /\ upnp.after = upnp.p_event
        /\ player = upnp.before

(* C15 witness: a variable query went through onEvent. *)
C15_Witness ==
    /\ EventDone({"UPNP_CONTROL_GET_VAR_REQUEST"})
    /\ upnp.ret = 0
    /\ upnp.handler = "none"

(***************************************************************************)
(* Properties of the handlers (specification Spec).                        *)
(***************************************************************************)
(* The request was for the given AVTransport action and its handler was
   invoked exactly once; request.calls are then the calls of that one
   invocation, which took the player from request.before to
   request.after. *)
InvokedOnce(action) ==
    /\ Served
    /\ request.service = SRV_AVT
    /\ request.action = action
    /\ Len(request.invoked) = 1

(* The parameters of the element the only invocation was made on. *)
InvokedParams == build_param_map(request.body[1][request.invoked[1].element])

StartedBefore == request.before.state \in {"STARTED", "PLAYING", "PAUSED"}

CallsOf(api) == {i \in DOMAIN request.calls : request.calls[i] = api}

(* C16: SetAVTransportURI without CurrentURI fails and leaves the player
   alone; with CurrentURI, unless the item cannot be made of it (the handler
   then fails, touching nothing), it returns ok with no output, the current
   media is the URI, and vlc_player_Start is called if and only if the
   player was started before, so a stopped player stays stopped. *)
C16_SetURIReplacesMedia ==
    InvokedOnce("SetAVTransportURI") =>
        LET inv == request.invoked[1]
        IN  /\ ~Has(InvokedParams, "CurrentURI") => ~inv.ok
            /\ ~inv.ok =>
                  (request.calls = <<>> /\ request.after = request.before)
            /\ inv.ok =>
                  /\ Has(InvokedParams, "CurrentURI")
                  /\ inv.out = <<>>
                  /\ request.after.media = InvokedParams["CurrentURI"]
                  /\ Cardinality(CallsOf("vlc_player_SetCurrentMedia")) = 1
                  /\ (CallsOf("vlc_player_Start") # {}) <=> StartedBefore
                  /\ ~StartedBefore =>
                        request.after.state = request.before.state

(* C16 witness: the URI http://x/y.mp4 set on a stopped player. *)
C16_Witness ==
    /\ InvokedOnce("SetAVTransportURI")
    /\ request.before.state = "STOPPED"
    /\ request.before.media = NoMedia
    /\ request.invoked[1].ok
    /\ request.invoked[1].out = <<>>
    /\ request.after.media = <<"http://x/y.mp4">>
    /\ request.after.state = "STOPPED"
    /\ CallsOf("vlc_player_Start") = {}

(* C17: Play without Speed fails and leaves the player alone; with Speed it
   succeeds, the player's rate afterwards is frac_to_float of Speed, any
   change of rate is made before playback is requested, and playback is
   requested by vlc_player_Resume when the player was started and by
   vlc_player_Start when it was not. *)
C17_PlaySetsRateFirst ==
    InvokedOnce("Play") =>
        LET inv == request.invoked[1]
            go == IF StartedBefore THEN "vlc_player_Resume"
                  ELSE "vlc_player_Start"
            other == IF StartedBefore THEN "vlc_player_Start"
                     ELSE "vlc_player_Resume"
        IN  /\ inv.ok <=> Has(InvokedParams, "Speed")
            /\ ~inv.ok =>
                  (request.calls = <<>> /\ request.after = request.before)
            /\ inv.ok =>
                  /\ request.after.rate = frac_to_float(InvokedParams["Speed"])
                  /\ Cardinality(CallsOf(go)) = 1
                  /\ CallsOf(other) = {}
                  /\ \A i \in CallsOf("vlc_player_ChangeRate") :
                        \A j \in CallsOf(go) : i < j
                  /\ request.before.rate # request.after.rate =>
                        CallsOf("vlc_player_ChangeRate") # {}

(* C17 witness: Play at half speed on a stopped player whose rate was 1. *)
C17_Witness ==
    /\ InvokedOnce("Play")
    /\ request.invoked[1].ok
    /\ request.before.state = "STOPPED"
    /\ request.before.rate = Rat(1, 1)
    /\ request.after.rate = Rat(1, 2)
    /\ request.calls = <<"vlc_player_Lock", "vlc_player_GetRate",
                         "vlc_player_ChangeRate", "vlc_player_Start",
                         "vlc_player_Unlock">>

(* A Target as the service describes it: two or three fields of digits
   separated by colons.  Fields(t, i, cur, acc) splits t from index i on. *)
RECURSIVE Fields(_, _, _, _)
Fields(t, i, cur, acc) ==
    IF i > Len(t) THEN Append(acc, cur)
    ELSE IF t[i] = ":" THEN Fields(t, i + 1, <<>>, Append(acc, cur))
    ELSE Fields(t, i + 1, Append(cur, t[i]), acc)

RECURSIVE FieldValue(_, _)
FieldValue(f, acc) ==
    IF f = <<>> THEN acc ELSE FieldValue(Tail(f), acc * 10 + DigitVal(Head(f)))

(* <<>> when the Target is not H:MM:SS or MM:SS with minutes and seconds
   below 60, else <<seconds>>, the position it names. *)
TargetSeconds(t) ==
    LET fs == Fields(t, 1, <<>>, <<>>)
        n == Len(fs)
        v == [k \in 1..n |-> FieldValue(fs[k], 0)]
    IN  IF /\ n \in {2, 3}
           /\ \A k \in 1..n : fs[k] # <<>> /\
                               \A c \in 1..Len(fs[k]) : IsDigit(fs[k][c])
           /\ v[n - 1] < 60 /\ v[n] < 60
        THEN <<(IF n = 3 THEN v[1] * 3600 ELSE 0) + v[n - 1] * 60 + v[n]>>
        ELSE <<>>

(* C18: Seek succeeds if and only if Unit and Target are present, Unit is
   ABS_TIME or REL_TIME and Target is H:MM:SS or MM:SS with minutes and
   seconds below 60; a successful Seek makes exactly one
   vlc_player_SeekByTime call, to the position the Target names (seen in
   the time of a started player); a failed one makes no call. *)
C18_SeekIffWellFormed ==
    InvokedOnce("Seek") =>
        LET inv == request.invoked[1]
            in == InvokedParams
            good == /\ Has(in, "Unit") /\ Has(in, "Target")
                    /\ in["Unit"] \in {S_ABS_TIME, S_REL_TIME}
                    /\ TargetSeconds(in["Target"]) # <<>>
        IN  /\ inv.ok <=> good
            /\ ~inv.ok =>
                  (request.calls = <<>> /\ request.after = request.before)
            /\ inv.ok =>
                  /\ Cardinality(CallsOf("vlc_player_SeekByTime")) = 1
                  /\ (good /\ StartedBefore) =>
                        request.after.time =
                            Tick(TargetSeconds(in["Target"])[1], 0)

(***************************************************************************)
(* Properties of the conversions (specification SpecConv).                 *)
(***************************************************************************)
(* C19: the text time_to_string writes for a tick of t whole seconds is read
   back by Seek's parser as three fields h, m, s with m and s in 0..59 and
   h * 3600 + m * 60 + s = t, and passes Seek's range test. *)
C19_TimeRoundTrip ==
    (conv.phase = "done" /\ conv.fn = "time") =>
        LET h == conv.parsed.h
            m == conv.parsed.m
            s == conv.parsed.s
        IN  /\ conv.parsed.ok
            /\ conv.in_range
            /\ ~h.neg /\ ~m.neg /\ ~s.neg
            /\ m.mag \in 0..59
            /\ s.mag \in 0..59
            /\ h.mag * 3600 + m.mag * 60 + s.mag = conv.ticks.sec

(* C19 witness: 25 hours, written as 25:00:00 and read back as 25, 0, 0. *)
C19_Witness ==
    /\ conv.phase = "done" /\ conv.fn = "time"
    /\ conv.ticks = Tick(90000, 0)
    /\ conv.text = <<"2", "5", ":", "0", "0", ":", "0", "0">>
    /\ conv.parsed.h.mag = 25
    /\ conv.parsed.m.mag = 0

(* C20: float_to_frac of the rate n/d, n non-zero and d positive in lowest
   terms, is the text "n/d". *)
C20_FracRoundTrip ==
    (conv.phase = "done" /\ conv.fn = "frac") =>
        conv.text = to_string(conv.n) \o <<"/">> \o to_string(conv.d)

(***************************************************************************)
(* The texts a control point may send as Speed: an optionally signed       *)
(* whole number, alone or followed by "/" and an unsigned whole number,    *)
(* with nothing before, between or after.                                  *)
(***************************************************************************)
AllDigits(t) == Len(t) > 0 /\ \A i \in DOMAIN t : IsDigit(t[i])

AllZeros(t) == Len(t) > 0 /\ \A i \in DOMAIN t : t[i] = "0"

Unsigned(t) == IF Len(t) > 0 /\ t[1] \in {"+", "-"} THEN Tail(t) ELSE t

SlashAt(t) ==
    IF \E i \in DOMAIN t : t[i] = "/"
    THEN CHOOSE i \in DOMAIN t : t[i] = "/" /\ \A j \in 1..(i - 1) : t[j] # "/"
    ELSE 0

NumeratorText(t) ==
    Unsigned(IF SlashAt(t) = 0 THEN t ELSE SubSeq(t, 1, SlashAt(t) - 1))

DenominatorText(t) ==
    IF SlashAt(t) = 0 THEN S_1 ELSE SubSeq(t, SlashAt(t) + 1, Len(t))

WellFormedFrac(t) == AllDigits(NumeratorText(t)) /\ AllDigits(DenominatorText(t))

(* C21: for every Speed text that is malformed, and for every one whose
   numerator or denominator is zero, frac_to_float returns 1.0, and Play
   given that Speed returns ok, throws nothing and leaves the player at
   rate 1. *)
C21_MalformedOrZeroIsOne ==
    (conv.phase = "done" /\ conv.fn = "parse") =>
        ((\/ ~WellFormedFrac(conv.text)
          \/ AllZeros(NumeratorText(conv.text))
          \/ AllZeros(DenominatorText(conv.text))) =>
            /\ conv.rate = RateOne
            /\ conv.ok
            /\ conv.thrown = NoException
            /\ player.rate = RateOne)

(* C22: GetVolume always succeeds with one output, a whole number of
   0..100; SetVolume with DesiredVolume v succeeds and sets the player
   volume to min(v, 100) hundredths, so 150 sets what 100 sets; and
   GetVolume right after SetVolume(v) returns min(v, 100), which is v for
   every v in 0..100. *)
C22_VolumeSymmetric ==
    /\ (conv.phase = "done" /\ conv.fn \in {"level", "volume"}) =>
          /\ conv.get_ok
          /\ Len(conv.out) = 1
          /\ conv.out[1][1] = "CurrentVolume"
          /\ \E k \in 0..100 : conv.out[1][2] = to_string_nat(k)
    /\ (conv.phase = "done" /\ conv.fn = "volume") =>
          LET clamped == IF conv.v > 100 THEN 100 ELSE conv.v
          IN  /\ conv.set_ok
              /\ conv.volume * 100 = clamped * 1000
              /\ player.volume = conv.volume
              /\ conv.out[1][2] = to_string_nat(clamped)

(* C22 witness: SetVolume(150) has set the volume 1.0 and GetVolume says
   100. *)
C22_Witness ==
    /\ conv.phase = "done" /\ conv.fn = "volume"
    /\ conv.v = 150
    /\ conv.volume = 1000
    /\ conv.out = << <<"CurrentVolume", <<"1", "0", "0">> >> >>

(* C23: SetMute fails exactly when DesiredMute is missing, and then leaves
   the mute flag alone; with "1", "true" or "yes" the player is muted, with
   "0", "false" or "no" it is not, with any other value the flag is what it
   was before; GetMute right after it returns "1" for a muted player and
   "0" otherwise. *)
C23_SetMuteValues ==
    (conv.phase = "done" /\ conv.fn = "mute") =>
        /\ conv.set_ok = conv.present
        /\ conv.mute =
             (IF conv.present /\ conv.text \in {S_1, S_true, S_yes} THEN TRUE
              ELSE IF conv.present /\ conv.text \in {S_0, S_false, S_no}
                   THEN FALSE
              ELSE conv.before)
        /\ player.mute = conv.mute
        /\ conv.get_ok
        /\ conv.out = << <<"CurrentMute", IF conv.mute THEN S_1 ELSE S_0>> >>

(* C23 witness: DesiredMute "TRUE" on a muted player is accepted and
   leaves it muted. *)
C23_Witness ==
    /\ conv.phase = "done" /\ conv.fn = "mute"
    /\ conv.present
    /\ conv.text = <<"T", "R", "U", "E">>
    /\ conv.before
    /\ conv.set_ok
    /\ conv.out = << <<"CurrentMute", S_1>> >>

(* The value N/D of a text "N/D" is the rate n/d to the nearest hundredth. *)
IsRateText(t, rate) ==
    LET a == ScanNumber(t, 1)
        b == ScanNumber(t, a.next + 1)
        N == IF a.neg THEN -a.mag ELSE a.mag
        D == IF b.neg THEN -b.mag ELSE b.mag
    IN  /\ a.ok /\ MatchChar(t, a.next, "/") /\ b.ok /\ b.next = Len(t) + 1
        /\ D # 0
        /\ 200 * Abs(N * rate.d - rate.n * D) <= Abs(D) * rate.d

(* C24: GetTransportInfo returns ok and throws nothing for every player
   state and error; its outputs are CurrentTransportState (STOPPED for
   STOPPED, PLAYING for PLAYING, PAUSED_PLAYBACK for PAUSED, TRANSITIONING
   for STARTED and STOPPING, UNKNOWN for anything else),
   CurrentTransportStatus (OK for no error, ERROR_OCCURRED for any other)
   and CurrentSpeed (a fraction whose value is the rate, to the hundredth);
   a playing player without error at rate 1 gives PLAYING, OK, 1/1. *)
C24_TransportInfoTotal ==
    (conv.phase = "done" /\ conv.fn = "transport") =>
        /\ conv.ok
        /\ conv.thrown = NoException
        /\ Len(conv.out) = 3
        /\ \E s \in Range(conv.out) :
              /\ s[1] = "CurrentTransportState"
              /\ s[2] = (CASE conv.state = "STOPPED" -> S_STOPPED
                           [] conv.state = "PLAYING" -> S_PLAYING
                           [] conv.state = "PAUSED" -> S_PAUSED_PLAYBACK
                           [] conv.state = "STARTED" -> S_TRANSITIONING
                           [] conv.state = "STOPPING" -> S_TRANSITIONING
                           [] OTHER -> S_UNKNOWN)
        /\ \E s \in Range(conv.out) :
              /\ s[1] = "CurrentTransportStatus"
              /\ s[2] = (IF conv.error = "NONE" THEN S_OK
                         ELSE S_ERROR_OCCURRED)
        /\ \E s \in Range(conv.out) :
              /\ s[1] = "CurrentSpeed"
              /\ IsRateText(s[2], conv.rate)
              /\ conv.rate = RateOne => s[2] = <<"1", "/", "1">>

(* C24 witness: a player in a state outside the enumeration, with an error
   outside it, is reported as UNKNOWN and ERROR_OCCURRED. *)
C24_Witness ==
    /\ conv.phase = "done" /\ conv.fn = "transport"
    /\ conv.state = "(other)" /\ conv.error = "(other)"
    /\ conv.ok
    /\ <<"CurrentTransportState", S_UNKNOWN>> \in Range(conv.out)
    /\ <<"CurrentTransportStatus", S_ERROR_OCCURRED>> \in Range(conv.out)

(***************************************************************************)
(* Properties of the response and of the locks (specifications Spec and    *)
(* SpecWrapper).                                                           *)
(***************************************************************************)
(* C25: in a success response the output parameters are the children of
   the response in the order in which the handler inserted them, one child
   for each. *)
C25_InsertionOrder ==
    (Returned /\ request.ErrCode = UPNP_E_SUCCESS /\ request.ActionResult # <<>>)
        => request.ActionResult[1].args = LastOut

(* C26: s_lock is held only by a thread in get, release, addListener,
   removeListener, startMediaRenderer or stopMediaRenderer, and it is free
   whenever a listener's onEvent is running. *)
C26_LockOnlyForSetup ==
    /\ wrapper.s_lock # NoThread => wrapper.op[wrapper.s_lock] \in SetupOps
    /\ wrapper.handling # NoListener => wrapper.s_lock = NoThread

(* The player lock's depth after the first n player calls of a request. *)
LockDepthAt(calls, n) ==
    Cardinality({i \in 1..n : calls[i] = "vlc_player_Lock"}) -
    Cardinality({i \in 1..n : calls[i] = "vlc_player_Unlock"})

LockCalls == {"vlc_player_Lock", "vlc_player_Unlock"}

(* C27: every call by which a handler reads or changes the player, the
   volume and mute calls included, is made while the player lock is held. *)
C27_PlayerCallsUnderLock ==
    Served =>
        \A i \in DOMAIN request.calls :
            request.calls[i] \notin LockCalls =>
                LockDepthAt(request.calls, i - 1) = 1

(* C28: the player lock is never taken twice nor released when free, and
   it is free whenever a handler returns or throws, so it is not held
   while the next element is decoded or the response is built. *)
C28_LockReleasedOnReturn ==
    Served =>
        /\ \A n \in 0..Len(request.calls) :
              LockDepthAt(request.calls, n) \in {0, 1}
        /\ \A k \in DOMAIN request.invoked :
              LockDepthAt(request.calls, request.invoked[k].ncalls) = 0
        /\ LockDepthAt(request.calls, Len(request.calls)) = 0

(* C28 witness: a request with a failed and a successful invocation that
   took the lock. *)
C28_Witness ==
    /\ Served
    /\ Len(request.invoked) = 2
    /\ ~request.invoked[1].ok
    /\ request.invoked[2].ok
    /\ CallsOf("vlc_player_Lock") # {}
    /\ request.calls[Len(request.calls)] = "vlc_player_Unlock"

(* C29: the player calls of one handler invocation are made under at most
   one hold of the lock, and two or more of them are all inside it; for
   GetTransportInfo, GetPositionInfo, SetAVTransportURI and Play an
   invocation that succeeds starts with vlc_player_Lock, ends with
   vlc_player_Unlock and neither locks nor unlocks in between. *)
C29_OneHoldPerHandler ==
    (Served /\ Len(request.invoked) = 1) =>
        LET c == request.calls
            body == {i \in DOMAIN c : c[i] \notin LockCalls}
            one_hold == /\ Len(c) >= 2
                        /\ c[1] = "vlc_player_Lock"
                        /\ c[Len(c)] = "vlc_player_Unlock"
                        /\ \A i \in 2..(Len(c) - 1) : c[i] \notin LockCalls
        IN  /\ Cardinality(CallsOf("vlc_player_Lock")) <= 1
            /\ Cardinality(body) >= 2 => one_hold
            /\ (/\ request.invoked[1].ok
                /\ request.service = SRV_AVT
                /\ request.action \in {"GetTransportInfo", "GetPositionInfo",
                                       "SetAVTransportURI", "Play"})
               => one_hold

(* C29 witness: GetTransportInfo read the state, the error and the rate
   under one hold. *)
C29_Witness ==
    /\ InvokedOnce("GetTransportInfo")
    /\ request.calls = <<"vlc_player_Lock", "vlc_player_GetState",
                         "vlc_player_GetError", "vlc_player_GetRate",
                         "vlc_player_Unlock">>

(* C30: the handler invocations of a request follow the order of its
   top-level elements, and after an invocation that succeeded no handler is
   invoked again: at most one invocation succeeds, it is the last one, and
   a response document holds the outputs of that invocation only. *)
C30_StopsAtFirstSuccess ==
    Served =>
        /\ \A j, k \in DOMAIN request.invoked :
              j < k => request.invoked[j].element <= request.invoked[k].element
        /\ \A k \in DOMAIN request.invoked :
              request.invoked[k].ok => k = Len(request.invoked)
        /\ request.ActionResult # <<>> =>
              Range(request.ActionResult[1].args) \subseteq Range(LastOut)

(***************************************************************************)
(* Properties of the conversions and of the published values               *)
(* (specifications SpecConv and SpecRouter).                               *)
(***************************************************************************)
(* C31: for every non-negative tick of total seconds t, time_to_string
   writes H:MM:SS: the hours t/3600 in decimal with no leading zero and no
   wrap, a colon, the minutes (t/60)%60 as two digits, a colon, and the
   seconds t%60 as two digits. *)
C31_TimeFormat ==
    (conv.phase = "done" /\ conv.fn = "time") =>
        LET t == conv.ticks.sec
            text == conv.text
            n == Len(text)
            two(i) == DigitVal(text[i]) * 10 + DigitVal(text[i + 1])
        IN  /\ n >= 7
            /\ text[n - 5] = ":" /\ text[n - 2] = ":"
            /\ \A i \in (1..n) \ {n - 5, n - 2} : IsDigit(text[i])
            /\ n > 7 => text[1] # "0"
            /\ conv.parsed.h.mag = t \div 3600
            /\ conv.parsed.h.next = n - 5
            /\ two(n - 4) = (t \div 60) % 60
            /\ two(n - 1) = t % 60
            /\ two(n - 4) \in 0..59 /\ two(n - 1) \in 0..59

(* C31 witness: 100 hours less one second is written 99:59:59. *)
C31_Witness ==
    /\ conv.phase = "done" /\ conv.fn = "time"
    /\ conv.ticks.sec = 359999
    /\ conv.text = <<"9", "9", ":", "5", "9", ":", "5", "9">>

(* C32: for every rate n/d, positive or negative, float_to_frac writes
   "N/D" with D strictly positive, N of the sign of the rate, and N and D
   without a common divisor. *)
C32_SignOnNumerator ==
    (conv.phase = "done" /\ conv.fn = "frac") =>
        LET a == ScanNumber(conv.text, 1)
            b == ScanNumber(conv.text, a.next + 1)
        IN  /\ a.ok /\ MatchChar(conv.text, a.next, "/") /\ b.ok
            /\ b.next = Len(conv.text) + 1
            /\ ~b.neg /\ b.mag > 0
            /\ a.neg = (conv.n < 0)
            /\ Gcd(a.mag, b.mag) = 1

(* The value a handler returned under the name key. *)
OutValue(results, key) ==
    LET r == CHOOSE x \in results : TRUE
        i == CHOOSE j \in DOMAIN r.out : r.out[j][1] = key
    IN  r.out[i][2]

(* C34: the value a player callback publishes is the value the query
   handler returns for the player in that state: TransportState is
   GetTransportInfo's CurrentTransportState, TransportPlaySpeed its
   CurrentSpeed, Volume is GetVolume's CurrentVolume and Mute is GetMute's
   CurrentMute. *)
C34_PublishedAgreesWithQuery ==
    PlayerCallbackDone =>
        LET sent == upnp.emits[1]
            p == Fresh(player)
        IN  /\ sent.key = "TransportState" =>
                  sent.value = OutValue(handle_AVT_GetTransportInfo(NoParams, p),
                                        "CurrentTransportState")
            /\ sent.key = "TransportPlaySpeed" =>
                  sent.value = OutValue(handle_AVT_GetTransportInfo(NoParams, p),
                                        "CurrentSpeed")
            /\ sent.key = "Volume" =>
                  sent.value = OutValue(handle_RC_GetVolume(NoParams, p),
                                        "CurrentVolume")
            /\ sent.key = "Mute" =>
                  sent.value = OutValue(handle_RC_GetMute(NoParams, p),
                                        "CurrentMute")
            /\ sent.key \in {"TransportState", "TransportPlaySpeed", "Volume",
                             "Mute"}

(* C34 witness: the volume 0.505 was published as 51, which is what
   GetVolume returns. *)
C34_Witness ==
    /\ PlayerCallbackDone
    /\ upnp.kind = "player_aout_volume_changed"
    /\ player.volume = 505
    /\ upnp.emits[1].value = <<"5", "1">>

(* The player calls made before the k-th invocation of the request. *)
CallsBefore(k) == IF k = 1 THEN 0 ELSE request.invoked[k - 1].ncalls

(* C33: a handler invocation that returns failure makes no call to the
   player at all, so a request whose invocations all fail leaves the
   player as it was; and a successful invocation that comes after failed
   ones calls each mutating player function at most once, so the failed
   and the successful element together apply the mutation once. *)
C33_FailureMutatesNothing ==
    Served =>
        /\ \A k \in DOMAIN request.invoked :
              (~request.invoked[k].ok /\ request.invoked[k].thrown = NoException)
                  => request.invoked[k].ncalls = CallsBefore(k)
        /\ (\A k \in DOMAIN request.invoked :
               ~request.invoked[k].ok /\ request.invoked[k].thrown = NoException)
              => request.after = request.before /\ request.calls = <<>>
        /\ \A k \in DOMAIN request.invoked :
              request.invoked[k].ok =>
                  \A i, j \in (CallsBefore(k) + 1)..request.invoked[k].ncalls :
                      (request.calls[i] = request.calls[j] /\
                       request.calls[i] \notin LockCalls) => i = j

(* C33 witness: a Seek element with minutes out of range failed, the next
   element succeeded, and the player was sought once. *)
C33_Witness ==
    /\ Served
    /\ request.action = "Seek"
    /\ Len(request.invoked) = 2
    /\ ~request.invoked[1].ok
    /\ request.invoked[1].ncalls = 0
    /\ request.invoked[2].ok
    /\ Cardinality(CallsOf("vlc_player_SeekByTime")) = 1

(***************************************************************************)
(* Properties of UpnpInstanceWrapper (specification SpecWrapper).          *)
(***************************************************************************)
RECURSIVE SumOver(_, _)
SumOver(f, S) ==
    IF S = {} THEN 0
    ELSE LET x == CHOOSE y \in S : TRUE IN f[x] + SumOver(f, S \ {x})

(* C39: the instance exists exactly when its reference count is at least   *)
(* 1, the count being the references the holders have; every holder of a   *)
(* reference got the instance s_instance still points to, so the gets      *)
(* between a creation and the last release returned one instance and it    *)
(* was not deleted under a holder; and every instance made but the one     *)
(* that exists was deleted once.                                           *)
C39_InstanceIffReferenced ==
        /\ wrapper.s_instance <=> wrapper.m_refcount >= 1
        /\ wrapper.m_refcount = SumOver(wrapper.refs, Intfs)
        /\ \A t \in Intfs :
              wrapper.refs[t] > 0 =>
                  wrapper.s_instance /\ wrapper.inst[t] = wrapper.created
        /\ wrapper.deleted =
              wrapper.created - (IF wrapper.s_instance THEN 1 ELSE 0)

(* C39 witness: a second instance is there after the first one was deleted *)
(* by the last release, and both interface threads hold it.                *)
C39_Witness ==
    /\ wrapper.created = 2
    /\ wrapper.deleted = 1
    /\ wrapper.m_refcount = 2
    /\ \A t \in Intfs : wrapper.refs[t] = 1

(* C40: the root device is registered exactly when the MediaRenderer count *)
(* is above zero; a start registers it only when it found the count 0, a   *)
(* stop unregisters it only when it found the count 1; a successful call   *)
(* moves the count by one and a failed call leaves it as it was.           *)
C40_RegisteredIffStarted ==
    /\ wrapper.m_device_handle # -1 <=> wrapper.m_mediarenderer_refcount > 0
    /\ wrapper.m_mediarenderer_refcount = SumOver(wrapper.started, Intfs)
    /\ wrapper.last.device = "registered" =>
          wrapper.last.op = "startMediaRenderer" /\ wrapper.last.before = 0
    /\ wrapper.last.device = "unregistered" =>
          wrapper.last.op = "stopMediaRenderer" /\ wrapper.last.before = 1
    /\ wrapper.last.op = "startMediaRenderer" =>
          wrapper.m_mediarenderer_refcount =
              wrapper.last.before + (IF wrapper.last.ok THEN 1 ELSE 0)
    /\ wrapper.last.op = "stopMediaRenderer" =>
          wrapper.m_mediarenderer_refcount =
              wrapper.last.before - (IF wrapper.last.ok THEN 1 ELSE 0)

(* C40 witness: a stop that found the count 1 failed and the device is     *)
(* still registered with the count 1.                                      *)
C40_Witness ==
    /\ wrapper.last.op = "stopMediaRenderer"
    /\ ~wrapper.last.ok
    /\ wrapper.last.before = 1
    /\ wrapper.m_mediarenderer_refcount = 1
    /\ wrapper.m_device_handle # -1

(***************************************************************************)
(* Properties of OpenControl and CloseControl (specification SpecControl). *)
(***************************************************************************)
InList(l) == \E i \in DOMAIN wrapper.s_listeners : wrapper.s_listeners[i] = l

(* C35: the only lock taken while another is held is the player lock,      *)
(* taken under s_lock; s_lock is never taken by a thread that holds the    *)
(* player lock (the playlist lock is the player's).                        *)
C35_LockOrder == intf.edges \subseteq {<<"s_lock", "player">>}

(* C35 witness: the libupnp thread holds s_lock and the player lock in an  *)
(* AVTransport handler while the interface thread is at CloseControl.      *)
C35_Witness ==
    /\ intf.pc = "open"
    /\ wrapper.s_lock = UpnpThread
    /\ intf.player_lock = UpnpThread
    /\ intf.edges = {<<"s_lock", "player">>}

(* C36: after OpenControl returned VLC_EGENERIC the EventHandler is not in *)
(* s_listeners, the MediaRenderer count and the reference count are what   *)
(* the other modules account for, the player has no listener of this       *)
(* object, and no handler of it has run since.                             *)
C36_FailureUndoesAll ==
    intf.pc = "failed" =>
        /\ ~InList(Handler)
        /\ wrapper.m_mediarenderer_refcount = intf.others
        /\ wrapper.m_refcount = intf.others
        /\ intf.listeners = {}
        /\ intf.read.pc # "failed"

(* C37: every dereference of p_intf->p_sys by a handler, by                *)
(* onSubscriptionRequest or by emit_event finds the p_sys that OpenControl *)
(* stored.                                                                 *)
C37_ReadsAfterStore == intf.read.by # "none" => intf.read.p_sys # "unset"

(* C38: a dereference made once CloseControl has begun finds p_sys not     *)
(* freed and the wrapper reference held; when the reference is released    *)
(* the EventHandler is out of s_listeners and the player has no listener   *)
(* of this object; after CloseControl has returned no handler and no       *)
(* callback of it runs.                                                    *)
C38_TeardownOrder ==
    /\ (intf.read.by # "none" /\ intf.read.closing) =>
          /\ intf.read.p_sys = "set"
          /\ intf.read.p_upnp
          /\ intf.read.pc # "closed"
    /\ (intf.closing /\ ~intf.p_upnp) =>
          ~InList(Handler) /\ intf.listeners = {}
    /\ intf.pc = "closed" =>
          /\ wrapper.handling # Handler
          /\ intf.cb = "none"
          /\ intf.p_sys = "freed"

(* C38 witness: CloseControl has returned, a player callback had used the  *)
(* wrapper while CloseControl was at stopMediaRenderer, and Callback is    *)
(* dispatching an AVTransport request for another module.                  *)
C38_Witness ==
    /\ intf.pc = "closed"
    /\ intf.read.pc = "stopMediaRenderer"
    /\ intf.read.by \in {"player", "aout"}
    /\ wrapper.s_lock = UpnpThread
    /\ wrapper.event = "AVTransport"

=============================================================================
